---- MODULE Spec2Model ----
(***************************************************************************)
(* Fixed-income cash-flow and yield engine (investments/instruments.py,    *)
(* investments/utils.py), the atomic file actions of transfiles            *)
(* (transactions.py, actions.py), the substring-search automata of         *)
(* algos/fsm.py, the market-data helpers (OHLCSeries, MovingAvgCalculator, *)
(* load_ohlc_table of investments/moex.py) and the rates table of          *)
(* scrapers/parse_cbr.py.  Each subsystem has its own variables and        *)
(* specification.                                                          *)
(*                                                                         *)
(* Numbers.  The program computes in binary floating point; the model      *)
(* computes in exact scaled integers:                                      *)
(*   dates        day numbers (datetime.date differences are day counts);  *)
(*   money        hundredths of the notional currency (1000.0 RUB is       *)
(*                100000), so round(x, 2) is rounding to an integer;       *)
(*   value_prc    whole percents (30.0 is 30);                             *)
(*   yearly_prc   tenths of a percent (11.7 is 117);                       *)
(*   flows        1/10000 of the currency (money * 100), so that a coupon  *)
(*                after tax, value * (1 - tax), stays an integer;          *)
(*   tax          whole percents (0.13 is 13).                             *)
(* An Optional[T] argument is a sequence of length 0 (None) or 1.          *)
(***************************************************************************)
EXTENDS Integers, Sequences, FiniteSets, TLC

VARIABLES
    phase,      \* "start": no Bond yet; "ready": Bond constructed, no call
                \* in progress; "done": a call has ended; "failed": the
                \* constructor raised
    bond,       \* the Bond object (meaningful when phase is ready or done)
    call,       \* the last call made: its name and its arguments
    result,     \* how the last call ended: a returned value or a raised error
    fr,         \* the frame of find_root_newton: arguments, locals, outcome
    thr,        \* the frames of the threads that call one Bond concurrently
    heap,       \* the list objects of the Bond and of its callers, by identity
    tx,         \* the frame of process_actions_atomically and the calls it made
    fsys,       \* a file action (MoveAction, CopyAction) and the file system
    fsm,        \* a generated substring-search FSM and the input it reads
    entry,      \* the last CouponScheduleEntry construction and how it ended
    series,     \* an OHLCSeries object and the last call made on it
    mavg,       \* a MovingAvgCalculator object and the elements added to it
    load,       \* the frame of load_ohlc_table and the loader's replies
    rates       \* a RatesTable object and its last find_violating_rates call

\* the variables of the subsystems other than the Bond and the root finder
others == <<thr, heap, tx, fsys, fsm>>

\* the variables of the market-data helpers and of the rates scraper
more == <<entry, series, mavg, load, rates>>

vars == <<phase, bond, call, result, fr, others, more>>

(***************************************************************************)
(* Bounds of the model.                                                    *)
(***************************************************************************)
MaxDate == 2
MaxCoupons == 2
MaxAmorts == 2
MaxIter == 3
MaxGuess == 12
MaxEps == 2
MaxActions == 3
MaxString == 2
MaxHeld == 2
MaxInput == 3
Scale == 4
MaxEntries == 2
MaxWindow == 3
MaxAdds == 4
MantissaBits == 3

(***************************************************************************)
(* Program constants.                                                      *)
(***************************************************************************)
YEAR_BASE == 365

None == <<>>
Some(v) == <<v>>

(***************************************************************************)
(* How a call ends.                                                        *)
(***************************************************************************)
Return(v) == [kind |-> "return", err |-> "", val |-> v]
Raise(e) == [kind |-> "raise", err |-> e, val |-> None]

ValidationError == "ValueError: schedule validation"
PreconditionError == "ValueError: domain precondition"
InsufficientDataError == "ValueError: insufficient data"
NonConvergenceError == "ValueError: has not converged"
TypeError == "TypeError"
ZeroDivisionError == "ZeroDivisionError"
IndexError == "IndexError"

EnumeratedErrors == {PreconditionError, InsufficientDataError, NonConvergenceError}

(***************************************************************************)
(* Arithmetic helpers.                                                     *)
(***************************************************************************)
Abs(x) == IF x < 0 THEN -x ELSE x

\* Python's round() of the exact quotient n / d (d > 0): to the nearest
\* integer, a tie going to the even neighbour.
Round(n, d) ==
    LET q == n \div d
        r == n - q * d
    IN  IF 2 * r < d THEN q
        ELSE IF 2 * r > d THEN q + 1
        ELSE IF q % 2 = 0 THEN q ELSE q + 1

RECURSIVE SumFrom(_, _)
\* an accumulation loop "for e in seq: acc += e", from index i on
SumFrom(seq, i) ==
    IF i > Len(seq) THEN 0 ELSE seq[i] + SumFrom(seq, i + 1)

(***************************************************************************)
(* Schedule entries.                                                       *)
(***************************************************************************)
Coupon(cd, rd, sd, v, p) ==
    [coupon_date |-> cd, record_date |-> rd, start_date |-> sd,
     value |-> v, yearly_prc |-> p]

Amort(d, prc, v) == [amort_date |-> d, value_prc |-> prc, value |-> v]

CouponScheduleEntry_raises_start_unchecked(e) ==
    \/ e.value < 0 \/ e.yearly_prc < 0
    \/ (e.record_date # None /\ e.record_date[1] > e.coupon_date)

\* CouponScheduleEntry.__post_init__: TRUE when construction raises
CouponScheduleEntry_raises(e) ==
    \/ e.value < 0 \/ e.yearly_prc < 0
    \/ (e.record_date # None /\ e.record_date[1] > e.coupon_date)
    \/ e.start_date > e.coupon_date

\* AmortizationScheduleEntry.__post_init__: TRUE when construction raises
AmortizationScheduleEntry_raises(e) == e.value < 0 \/ e.value_prc < 0

(***************************************************************************)
(* Bond construction.                                                      *)
(***************************************************************************)
\* the lists the loops of __post_init__ walk through: the dates picked by
\* the three date accessors, and the two amortization fields that are summed
AmortDates(amortizations) ==
    [i \in 1..Len(amortizations) |-> amortizations[i].amort_date]
CouponDates(coupons) == [i \in 1..Len(coupons) |-> coupons[i].coupon_date]
StartDates(coupons) == [i \in 1..Len(coupons) |-> coupons[i].start_date]
ValuePrcs(amortizations) ==
    [i \in 1..Len(amortizations) |-> amortizations[i].value_prc]
Values(amortizations) ==
    [i \in 1..Len(amortizations) |-> amortizations[i].value]

NotAscending_equal_allowed(dt, prev_dt) == dt < prev_dt

\* the test "dt <= prev_dt" on two consecutive entries that makes
\* __check_dates_ascending raise
NotAscending(dt, prev_dt) == dt <= prev_dt

\* Bond.__check_dates_ascending: TRUE when the loop ends without raising
check_dates_ascending(dates) ==
    \A i \in 1..Len(dates) : i > 1 => ~NotAscending(dates[i], dates[i - 1])

PercentSumOk(percent_notional_amortized) == percent_notional_amortized = 100

NotionalSumOk_at_least(notional_amortized, initial_notional) ==
    notional_amortized >= initial_notional

NotionalSumOk(notional_amortized, initial_notional) ==
    notional_amortized = initial_notional

\* Bond.__post_init__: TRUE when the Bond is constructed, FALSE when
\* ValueError is raised
Bond_post_init(coupons, amortizations, initial_notional) ==
    /\ check_dates_ascending(AmortDates(amortizations))
    /\ check_dates_ascending(CouponDates(coupons))
    /\ check_dates_ascending(StartDates(coupons))
    /\ PercentSumOk(SumFrom(ValuePrcs(amortizations), 1))
    /\ NotionalSumOk(SumFrom(Values(amortizations), 1), initial_notional)

MkBond(coupons, amortizations, initial_notional) ==
    [coupons |-> coupons, amortizations |-> amortizations,
     initial_notional |-> initial_notional]

NoBond == MkBond(<<>>, <<>>, 0)

(***************************************************************************)
(* Bond queries.                                                           *)
(***************************************************************************)
AmortInEffect_on_its_date(amort_date, date) == amort_date <= date

\* the test "am.amort_date < date" of the loop of notional_on_date
AmortInEffect(amort_date, date) == amort_date < date

RECURSIVE AccumPrc(_, _, _)
\* the loop of notional_on_date: add value_prc while the amortization is
\* in effect, break at the first entry that is not
AccumPrc(amortizations, date, i) ==
    IF i > Len(amortizations) THEN 0
    ELSE IF AmortInEffect(amortizations[i].amort_date, date)
         THEN amortizations[i].value_prc + AccumPrc(amortizations, date, i + 1)
         ELSE 0

AfterLast_reversed(date, last_date) == date < last_date

\* the two branches of notional_on_date before the loop
BeforeFirst(date, first_date) == date < first_date
AfterLast(date, last_date) == date > last_date

\* Bond.notional_on_date
notional_on_date(b, date) ==
    IF Len(b.amortizations) = 0 THEN Raise(IndexError)
    ELSE IF BeforeFirst(date, b.amortizations[1].amort_date)
         THEN Return(b.initial_notional)
    ELSE IF AfterLast(date, b.amortizations[Len(b.amortizations)].amort_date)
         THEN Return(0)
    ELSE Return((b.initial_notional
                    * (100 - AccumPrc(b.amortizations, date, 1))) \div 100)

\* next(filter(lambda c: c[1].coupon_date >= dt, enumerate(coupons)), None):
\* the index of the first coupon on or after dt, 0 when there is none
ClosestCouponIdx(coupons, dt) ==
    LET hits == {i \in 1..Len(coupons) : coupons[i].coupon_date >= dt}
    IN  IF hits = {} THEN 0
        ELSE CHOOSE i \in hits : \A j \in hits : i <= j

\* what "idx, closest_coupon = <None>" does when the filter is exhausted:
\* unpacking None raises TypeError before the "is None" test is reached
NoClosestCoupon == Raise(TypeError)

coupon_start_own(coupons, idx) == coupons[idx].start_date

coupon_start_of_previous(coupons, idx) ==
    IF idx = 1 THEN coupons[idx].start_date ELSE coupons[idx - 1].start_date

\* the start of the accrual period of coupon idx
coupon_start(coupons, idx) ==
    IF idx = 1 THEN coupons[idx].start_date ELSE coupons[idx - 1].coupon_date

\* Bond.accrued_coupon_on_date
accrued_coupon_on_date(b, dt) ==
    LET idx == ClosestCouponIdx(b.coupons, dt)
        eff == notional_on_date(b, dt)
    IN  IF idx = 0 THEN NoClosestCoupon
        ELSE IF eff.kind = "raise" THEN eff
        ELSE Return(Round(eff.val * b.coupons[idx].yearly_prc
                            * (dt - coupon_start(b.coupons, idx)),
                          1000 * YEAR_BASE))

CouponDue_strictly_after(coupon, dt) == coupon.coupon_date > dt

CouponDue(coupon, dt) == coupon.coupon_date >= dt
AmortDue(amort, dt) == amort.amort_date >= dt

\* Bond.payments_since_date
payments_since_date(b, dt) ==
    LET C(c) == CouponDue(c, dt)
        A(a) == AmortDue(a, dt)
    IN  <<SelectSeq(b.coupons, C), SelectSeq(b.amortizations, A)>>

(***************************************************************************)
(* Cash flows and yield to maturity.                                       *)
(***************************************************************************)
CashFlow(date, flow) == [date |-> date, flow |-> flow]

CashFlows_raises_without_sign_checks(flows) == Len(flows) < 2

CashFlows_raises_without_negative_check(flows) ==
    \/ Len(flows) < 2
    \/ ~(\E i \in 1..Len(flows) : flows[i].flow > 0)

\* CashFlows.__init__: TRUE when ValueError is raised
CashFlows_raises(flows) ==
    \/ Len(flows) < 2
    \/ ~(\E i \in 1..Len(flows) : flows[i].flow > 0)
    \/ ~(\E i \in 1..Len(flows) : flows[i].flow < 0)

\* find_root_newton as CashFlows.irr uses it, on f = npv and f_der = npv_der.
\* npv raises (1 + rate) to a fractional number of years, which has no exact
\* integer model; the two outcomes the solver's contract allows, a root
\* or the non-convergence error, are both kept, chosen by the caller of irr.
SolverOutcomes ==
    {[converged |-> TRUE, root |-> 64215], [converged |-> FALSE, root |-> 0]}

find_root_newton_on_npv(solver) ==
    IF solver.converged THEN Return(solver.root) ELSE Raise(NonConvergenceError)

irr_with_default(flows, solver) ==
    IF flows[1].flow = 0 THEN Raise(ZeroDivisionError)
    ELSE IF solver.converged THEN Return(solver.root) ELSE Return(0)

\* CashFlows.irr: the initial guess divides by the first flow, then the
\* solver's outcome is passed on as it is
irr(flows, solver) ==
    IF flows[1].flow = 0 THEN Raise(ZeroDivisionError)
    ELSE find_root_newton_on_npv(solver)

CouponFlow_untaxed(coupon, coupon_tax_prc) ==
    CashFlow(coupon.coupon_date, coupon.value * 100)

\* the flow of one coupon: its value, less tax when a tax rate is given
CouponFlow(coupon, coupon_tax_prc) ==
    CashFlow(coupon.coupon_date,
             IF coupon_tax_prc = None THEN coupon.value * 100
             ELSE coupon.value * (100 - coupon_tax_prc[1]))

AmortFlow(amort) == CashFlow(amort.amort_date, amort.value * 100)

PriceBuy_without_commission(price_buy_prc, notional, accrued, commission) ==
    (price_buy_prc * notional) \div 100 + accrued

\* price_buy of yield_to_maturity, in money units
PriceBuy(price_buy_prc, notional, accrued, commission) ==
    (price_buy_prc * notional) \div 100 + accrued
        + (IF commission # None THEN commission[1] ELSE 0)

\* the list "flows" of yield_to_maturity
YtmFlows(date_buy, price_buy, coupons, amortizations, coupon_tax_prc) ==
    <<CashFlow(date_buy, -(price_buy * 100))>>
        \o [i \in 1..Len(coupons) |-> CouponFlow(coupons[i], coupon_tax_prc)]
        \o [i \in 1..Len(amortizations) |-> AmortFlow(amortizations[i])]

YtmPrecondition_price_only(price_buy_prc, date_buy, date_settle) ==
    price_buy_prc < 0

\* the two preconditions of yield_to_maturity: TRUE when ValueError is raised
YtmPrecondition_raises(price_buy_prc, date_buy, date_settle) ==
    price_buy_prc < 0 \/ date_buy > date_settle

Out(res, sub, flows) == [res |-> res, sub |-> sub, flows |-> flows]

\* Bond.yield_to_maturity.  res: how the call ends; sub: the calls it made,
\* in order; flows: the list handed to CashFlows (empty if never built).
\* The returned rate is in 1/10000 (round(100 * irr, 2) / 100 of a root
\* given in 1/1000000).
yield_to_maturity(b, price_buy_prc, date_buy, date_settle, accrued_coupon, coupon_tax_prc, commission, solver) ==
    IF YtmPrecondition_raises(price_buy_prc, date_buy, date_settle)
    THEN Out(Raise(PreconditionError), <<>>, <<>>)
    ELSE
    LET pays == payments_since_date(b, date_settle)
        sub1 == <<"payments_since_date">>
        acc == IF accrued_coupon = None
               THEN accrued_coupon_on_date(b, date_buy)
               ELSE Return(accrued_coupon[1])
        sub2 == IF accrued_coupon = None
                THEN Append(sub1, "accrued_coupon_on_date") ELSE sub1
    IN  IF acc.kind = "raise" THEN Out(acc, sub2, <<>>)
        ELSE
        LET n == notional_on_date(b, date_buy)
            sub3 == Append(sub2, "notional_on_date")
        IN  IF n.kind = "raise" THEN Out(n, sub3, <<>>)
            ELSE
            LET price_buy == PriceBuy(price_buy_prc, n.val, acc.val, commission)
                flows == YtmFlows(date_buy, price_buy, pays[1], pays[2],
                                  coupon_tax_prc)
                sub4 == Append(sub3, "CashFlows")
            IN  IF CashFlows_raises(flows)
                THEN Out(Raise(InsufficientDataError), sub4, flows)
                ELSE
                LET r == irr(flows, solver)
                    sub5 == IF flows[1].flow = 0 THEN Append(sub4, "irr")
                            ELSE sub4 \o <<"irr", "find_root_newton">>
                IN  IF r.kind = "raise" THEN Out(r, sub5, flows)
                    ELSE Out(Return(Round(r.val, 100)), sub5, flows)

(***************************************************************************)
(* The exchange schedule of bond RU000A0JWSQ7 as test_can_parse_bond lists *)
(* it; day 0 is 2016-09-09, the start of the first accrual period.         *)
(***************************************************************************)
FixtureCoupons ==
    << Coupon(91, None, 0, 2917, 117),
      Coupon(182, None, 91, 2917, 117),
      Coupon(273, None, 182, 2917, 117),
      Coupon(364, None, 273, 2917, 117),
      Coupon(455, Some(454), 364, 2917, 117),
      Coupon(546, Some(544), 455, 2917, 117),
      Coupon(637, Some(636), 549, 2917, 117),
      Coupon(728, Some(727), 637, 2917, 117),
      Coupon(819, Some(818), 728, 2917, 117),
      Coupon(910, Some(909), 819, 2917, 117),
      Coupon(1001, Some(1000), 910, 2917, 117),
      Coupon(1092, Some(1091), 1001, 2917, 117),
      Coupon(1183, Some(1182), 1092, 2042, 117),
      Coupon(1274, Some(1273), 1183, 2042, 117),
      Coupon(1365, Some(1364), 1274, 2042, 117),
      Coupon(1456, Some(1455), 1365, 2042, 117),
      Coupon(1547, Some(1546), 1456, 1167, 117),
      Coupon(1638, Some(1637), 1547, 1167, 117),
      Coupon(1729, Some(1728), 1638, 1167, 117),
      Coupon(1820, Some(1819), 1729, 1167, 117) >>

FixtureAmortizations ==
    << Amort(1092, 30, 30000), Amort(1456, 30, 30000), Amort(1820, 40, 40000) >>

Fixture == MkBond(FixtureCoupons, FixtureAmortizations, 100000)

(***************************************************************************)
(* Inputs of the model.                                                    *)
(***************************************************************************)
Dates == 0..MaxDate

\* constructed coupon entries: an accrual period of at most one day, one
\* value and one rate
CouponEntries ==
    {e \in {Coupon(cd, None, sd, 2000, 100) : cd \in Dates, sd \in Dates} :
        /\ ~CouponScheduleEntry_raises(e)
        /\ e.coupon_date - e.start_date <= 1}

\* constructed amortization entries
AmortEntries ==
    {e \in {Amort(d, pv[1], pv[2]) :
                d \in Dates,
                pv \in {<<50, 50000>>, <<50, 40000>>, <<40, 50000>>,
                        <<100, 100000>>}} :
        ~AmortizationScheduleEntry_raises(e)}

SeqsUpTo(S, n) == UNION {[1..k -> S] : k \in 0..n}

InitialNotionals == {100000, 90000}

\* the dates a query is made on: every day from the first schedule day to
\* the day after the last one; for the exchange schedule its coupon dates
\* and the days around its amortization dates
QueryDates(b) ==
    IF b = Fixture
    THEN {b.coupons[i].coupon_date : i \in 1..Len(b.coupons)}
            \cup UNION {{a - 1, a, a + 1} :
                        a \in {b.amortizations[i].amort_date :
                                    i \in 1..Len(b.amortizations)}}
    ELSE 0..(MaxDate + 1)

\* the buy dates of yield_to_maturity: for the exchange schedule the buy
\* date of test_ytm1 and the day after maturity
BuyDates(b) == IF b = Fixture THEN {1418, 1821} ELSE 0..(MaxDate + 1)

\* settlement is the buy date or the business day after it; the day before
\* it is the rejected case
SettleDates(date_buy) == {date_buy - 1, date_buy, date_buy + 1}

Prices == {-1, 0, 103}
AccruedCoupons == {None, Some(1189)}
CouponTaxes == {None, Some(13), Some(200)}
Commissions == {None, Some(53)}

(***************************************************************************)
(* Bond: construction and calls.                                           *)
(***************************************************************************)
NoResult == [kind |-> "", err |-> "", val |-> None]
NoCall == [op |-> "", args |-> <<>>, sub |-> <<>>, flows |-> <<>>, solved |-> NoResult]
MkCall(op, args) == [op |-> op, args |-> args, sub |-> <<>>, flows |-> <<>>, solved |-> NoResult]

BondInit(coupons, amortizations, initial_notional) ==
    /\ call' = MkCall("Bond", <<coupons, amortizations, initial_notional>>)
    /\ IF Bond_post_init(coupons, amortizations, initial_notional)
       THEN /\ phase' = "ready"
            /\ bond' = MkBond(coupons, amortizations, initial_notional)
            /\ result' = Return(None)
       ELSE /\ phase' = "failed"
            /\ bond' = NoBond
            /\ result' = Raise(ValidationError)
    /\ UNCHANGED <<fr, others, more>>

Construct ==
    /\ phase = "start"
    /\ \E coupons \in SeqsUpTo(CouponEntries, MaxCoupons),
       amortizations \in SeqsUpTo(AmortEntries, MaxAmorts),
       initial_notional \in InitialNotionals :
        BondInit(coupons, amortizations, initial_notional)

\* m.parse_coupon_schedule_xml on the sample document: the Bond constructor
\* on the parsed schedule
ParseFixture ==
    /\ phase = "start"
    /\ BondInit(FixtureCoupons, FixtureAmortizations, 100000)

NotionalOnDate ==
    /\ phase = "ready"
    /\ \E date \in QueryDates(bond) :
        /\ call' = MkCall("notional_on_date", <<date>>)
        /\ result' = notional_on_date(bond, date)
    /\ phase' = "done"
    /\ UNCHANGED <<bond, fr, others, more>>

AccruedCouponOnDate ==
    /\ phase = "ready"
    /\ \E dt \in QueryDates(bond) :
        /\ call' = MkCall("accrued_coupon_on_date", <<dt>>)
        /\ result' = accrued_coupon_on_date(bond, dt)
    /\ phase' = "done"
    /\ UNCHANGED <<bond, fr, others, more>>

PaymentsSinceDate ==
    /\ phase = "ready"
    /\ \E dt \in QueryDates(bond) :
        /\ call' = MkCall("payments_since_date", <<dt>>)
        /\ result' = Return(payments_since_date(bond, dt))
    /\ phase' = "done"
    /\ UNCHANGED <<bond, fr, others, more>>

YieldToMaturity ==
    /\ phase = "ready"
    /\ \E price_buy_prc \in Prices, date_buy \in BuyDates(bond),
          accrued_coupon \in AccruedCoupons, coupon_tax_prc \in CouponTaxes,
          commission \in Commissions, solver \in SolverOutcomes :
        \E date_settle \in SettleDates(date_buy) :
            LET out == yield_to_maturity(bond, price_buy_prc, date_buy,
                                         date_settle, accrued_coupon,
                                         coupon_tax_prc, commission, solver)
            IN  /\ call' = [op |-> "yield_to_maturity",
                            args |-> <<price_buy_prc, date_buy, date_settle,
                                       accrued_coupon, coupon_tax_prc,
                                       commission>>,
                            sub |-> out.sub, flows |-> out.flows,
                            solved |->
                                IF \E i \in 1..Len(out.sub) :
                                        out.sub[i] = "find_root_newton"
                                THEN find_root_newton_on_npv(solver)
                                ELSE NoResult]
                /\ result' = out.res
    /\ phase' = "done"
    /\ UNCHANGED <<bond, fr, others, more>>

\* the caller goes on to its next call on the same Bond
ReturnToCaller ==
    /\ phase = "done"
    /\ phase' = "ready"
    /\ call' = NoCall
    /\ result' = NoResult
    /\ UNCHANGED <<bond, fr, others, more>>

(***************************************************************************)
(* find_root_newton.  x and f(x) are fixed-point numbers in units of       *)
(* 1/Scale; a quotient is rounded to the nearest unit, as a floating-point *)
(* division rounds to the nearest representable number.                    *)
(***************************************************************************)
\* n / d for d # 0, rounded to the nearest integer
Quot(n, d) == IF d > 0 THEN Round(n, d) ELSE Round(-n, -d)

\* the functions of TestFindRoot: x^2 - 2x + 1 (one root, 1) and
\* x^2 - 2x + 2 (no real root)
Funcs == {"x^2-2x+1", "x^2-2x+2"}

f_at(f, x) ==
    IF f = "x^2-2x+1"
    THEN Round(x * x - 2 * x * Scale + Scale * Scale, Scale)
    ELSE Round(x * x - 2 * x * Scale + 2 * Scale * Scale, Scale)

\* approx_derivative_symmetric with h one unit
approx_derivative_symmetric(f, x) ==
    Round((f_at(f, x + 1) - f_at(f, x - 1)) * Scale, 2)

\* f_der: the caller's exact derivative 2x - 2, or, when f_der is None,
\* the symmetric approximation
Derivatives == {None, Some("2x-2")}

f_der_at(f, f_der, x) ==
    IF f_der = None THEN approx_derivative_symmetric(f, x)
    ELSE 2 * x - 2 * Scale

LoopContinues_one_more(num_iter, max_iter, observed_eps, eps) ==
    num_iter <= max_iter /\ observed_eps > eps

\* the loop condition of find_root_newton
LoopContinues(num_iter, max_iter, observed_eps, eps) ==
    num_iter < max_iter /\ observed_eps > eps

Converged_flipped(observed_eps, eps) == observed_eps > eps

\* the test after the loop that decides between return and raise
Converged(observed_eps, eps) == observed_eps < eps

\* lines 45-50: the call, up to the first evaluation of f
FindRootCall ==
    /\ fr.pc = "idle"
    /\ \E f \in Funcs, init_guess \in 0..MaxGuess, eps \in 0..MaxEps,
          max_iter \in 0..MaxIter, f_der \in Derivatives :
        fr' = [pc |-> "loop", f |-> f, f_der |-> f_der,
               init_guess |-> init_guess, eps |-> eps, max_iter |-> max_iter,
               cur_x |-> init_guess, cur_f |-> f_at(f, init_guess),
               observed_eps |-> Abs(f_at(f, init_guess)),
               num_iter |-> 0, der_calls |-> 0, out |-> NoResult]
    /\ UNCHANGED <<phase, bond, call, result, others, more>>

\* lines 51-55: one Newton step; the division raises when f_der(x) is 0
FindRootStep ==
    /\ fr.pc = "loop"
    /\ LoopContinues(fr.num_iter, fr.max_iter, fr.observed_eps, fr.eps)
    /\ LET d == f_der_at(fr.f, fr.f_der, fr.cur_x)
           x == fr.cur_x - Quot(fr.cur_f * Scale, d)
       IN  IF d = 0
           THEN fr' = [fr EXCEPT !.pc = "raised",
                                 !.der_calls = @ + 1,
                                 !.out = Raise(ZeroDivisionError)]
           ELSE fr' = [fr EXCEPT !.cur_x = x,
                                 !.cur_f = f_at(fr.f, x),
                                 !.observed_eps = Abs(f_at(fr.f, x)),
                                 !.num_iter = @ + 1,
                                 !.der_calls = @ + 1]
    /\ UNCHANGED <<phase, bond, call, result, others, more>>

\* lines 56-59: after the loop, return the triple or raise
FindRootExit ==
    /\ fr.pc = "loop"
    /\ ~LoopContinues(fr.num_iter, fr.max_iter, fr.observed_eps, fr.eps)
    /\ IF Converged(fr.observed_eps, fr.eps)
       THEN fr' = [fr EXCEPT !.pc = "returned",
                             !.out = Return(<<fr.cur_x, fr.num_iter,
                                              fr.observed_eps>>)]
       ELSE fr' = [fr EXCEPT !.pc = "raised",
                             !.out = Raise(NonConvergenceError)]
    /\ UNCHANGED <<phase, bond, call, result, others, more>>

FrIdle ==
    [pc |-> "idle", f |-> "", f_der |-> "", init_guess |-> 0, eps |-> 0,
     max_iter |-> 0, cur_x |-> 0, cur_f |-> 0, observed_eps |-> 0,
     num_iter |-> 0, der_calls |-> 0, out |-> NoResult]

\* the threads that share one Bond
Threads == {1, 2}

\* a thread that is in no call
NoFrame ==
    [pc |-> "idle", op |-> "", args |-> <<>>, k |-> 0, accum_prc |-> 0,
     coupons |-> <<>>, amortizations |-> <<>>, res |-> NoResult,
     overlapped |-> FALSE]

\* no Bond shared yet
ThrIdle ==
    [pc |-> "idle", bond |-> NoBond, frames |-> [t \in Threads |-> NoFrame],
     flows |-> [t \in Threads |-> <<>>]]
\* the list objects a Bond, a call in progress and the caller can hold
ListIds == 1..(MaxHeld + 5)

\* no Bond constructed: no list object is live
HeapIdle ==
    [pc |-> "idle", lists |-> [id \in ListIds |-> <<>>], live |-> {},
     bond |-> [coupons |-> 0, amortizations |-> 0, initial_notional |-> 0],
     constructed |-> NoBond, held |-> {}, locals |-> {},
     op |-> "", returned |-> <<>>, res |-> NoResult]
\* process_actions_atomically not called: its frame is empty
TxIdle ==
    [pc |-> "idle", actions |-> <<>>, i |-> 0, j |-> 0,
     actions_for_rollback_on_error |-> <<>>, need_rollback |-> FALSE,
     calls |-> <<>>, logged |-> <<>>]
\* a path that holds no file
Absent == "absent"

\* no file action constructed
FsIdle ==
    [pc |-> "idle", kind |-> "",
     fs |-> [file |-> Absent, tmp_name |-> Absent, trg_file |-> Absent,
             trg_dir |-> FALSE],
     before |-> [file |-> Absent, tmp_name |-> Absent, trg_file |-> Absent,
                 trg_dir |-> FALSE],
     done_renaming |-> FALSE, raised |-> ""]
\* no FSM generated
FsmIdle ==
    [pc |-> "idle", string |-> <<>>,
     machine |-> [alphabet |-> {}, start_state |-> 0, final_states |-> {},
                  jump_table |-> <<>>],
     input_string |-> <<>>, pos |-> 0, cur_state |-> 0, passed |-> FALSE,
     comment |-> ""]

\* no OHLCSeries constructed yet
SeriesIdle ==
    [pc |-> "idle", self |-> [instr_code |-> "", ohlc_series |-> <<>>, name |-> None],
     before |-> [instr_code |-> "", ohlc_series |-> <<>>, name |-> None],
     other |-> [instr_code |-> "", ohlc_series |-> <<>>, name |-> None],
     res |-> NoResult]
\* no MovingAvgCalculator constructed yet
MavgIdle ==
    [pc |-> "idle", window |-> 0, buffer |-> <<>>, cur_idx |-> 0, agg_sum |-> 0,
     num_inserted |-> 0, added |-> <<>>, res |-> NoResult]
\* load_ohlc_table not called
LoadIdle ==
    [pc |-> "idle", from_date |-> None, date |-> None,
     series |-> [instr_code |-> "", ohlc_series |-> <<>>, name |-> None],
     requests |-> <<>>, replies |-> <<>>, res |-> NoResult]
\* no RatesTable constructed yet
RatesIdle == [pc |-> "idle", by_dates |-> <<>>, rel_eps |-> 0, res |-> NoResult]

Init ==
    /\ phase = "start"
    /\ bond = NoBond
    /\ call = NoCall
    /\ result = NoResult
    /\ fr = FrIdle
    /\ thr = ThrIdle
    /\ heap = HeapIdle
    /\ tx = TxIdle
    /\ fsys = FsIdle
    /\ fsm = FsmIdle
    /\ entry = [pc |-> "idle", args |-> Coupon(0, None, 0, 0, 0), res |-> NoResult]
    /\ series = SeriesIdle
    /\ mavg = MavgIdle
    /\ load = LoadIdle
    /\ rates = RatesIdle

Next ==
    \/ Construct
    \/ ParseFixture
    \/ NotionalOnDate
    \/ AccruedCouponOnDate
    \/ PaymentsSinceDate
    \/ YieldToMaturity
    \/ ReturnToCaller

Spec == Init /\ [][Next]_vars

NextRoot ==
    \/ FindRootCall
    \/ FindRootStep
    \/ FindRootExit

SpecRoot == Init /\ [][NextRoot]_vars

\* find_root_newton as a sequential function: a step that can be taken is
\* taken
SpecRootFair == Init /\ [][NextRoot]_vars /\ WF_vars(NextRoot)

(***************************************************************************)
(* transfiles/transactions.py: process_actions_atomically.                 *)
(* An Action is known by what its three methods do when called: each       *)
(* either returns or raises.  tx.calls lists the method calls made, in     *)
(* order, as <<method, index of the action in the list>>; tx.logged the    *)
(* calls whose exception was logged and swallowed.                         *)
(***************************************************************************)
\* the lists of Actions handed to process_actions_atomically
ActionLists ==
    SeqsUpTo([pre_commit_raises : BOOLEAN, rollback_raises : BOOLEAN,
              commit_raises : BOOLEAN], MaxActions)

RollbackOrder_forward(actions_for_rollback_on_error) ==
    actions_for_rollback_on_error

\* "for action in reversed(actions_for_rollback_on_error)"
RollbackOrder(actions_for_rollback_on_error) ==
    [k \in 1..Len(actions_for_rollback_on_error) |->
        actions_for_rollback_on_error[
            Len(actions_for_rollback_on_error) + 1 - k]]

PhaseAfterPreCommit_commit_always(need_rollback) == "commit"

\* "if need_rollback: ... else: ..." after the pre_commit loop
PhaseAfterPreCommit(need_rollback) ==
    IF need_rollback THEN "rollback" ELSE "commit"

LoopAfterCall_stop_on_exception(loop, raised, last) ==
    IF last \/ raised THEN "returned" ELSE loop

\* "try: action.rollback() / action.commit() except BaseException: log":
\* the loop goes on to its next action whether the call raised or not, and
\* the function returns after the last one
LoopAfterCall(loop, raised, last) == IF last THEN "returned" ELSE loop

\* the call; an empty list passes through both loops at once
TxCall ==
    /\ tx.pc = "idle"
    /\ \E actions \in ActionLists :
        tx' = [TxIdle EXCEPT
                !.actions = actions,
                !.i = 1,
                !.pc = IF actions = <<>> THEN "returned"
                       ELSE "pre_commit"]
    /\ UNCHANGED <<phase, bond, call, result, fr, thr, heap, fsys, fsm, more>>

\* one pass of the pre_commit loop: the action is recorded for rollback
\* before its pre_commit is called; an exception ends the loop
TxPreCommit ==
    /\ tx.pc = "pre_commit"
    /\ LET i == tx.i
           n == Len(tx.actions)
           recorded == Append(tx.actions_for_rollback_on_error, i)
           raises == tx.actions[i].pre_commit_raises
           ended == raises \/ i = n
           next == PhaseAfterPreCommit(raises)
       IN  tx' = [tx EXCEPT
                    !.actions_for_rollback_on_error = recorded,
                    !.calls = Append(@, <<"pre_commit", i>>),
                    !.need_rollback = raises,
                    !.i = IF ended THEN 1 ELSE i + 1,
                    !.j = IF ended /\ next = "rollback" THEN 1 ELSE 0,
                    !.pc = IF ended THEN next ELSE "pre_commit"]
    /\ UNCHANGED <<phase, bond, call, result, fr, thr, heap, fsys, fsm, more>>

\* one pass of the rollback loop: an exception is logged and swallowed
TxRollback ==
    /\ tx.pc = "rollback"
    /\ LET order == RollbackOrder(tx.actions_for_rollback_on_error)
           a == order[tx.j]
       IN  tx' = [tx EXCEPT
                    !.calls = Append(@, <<"rollback", a>>),
                    !.logged = IF tx.actions[a].rollback_raises
                               THEN Append(@, <<"rollback", a>>) ELSE @,
                    !.j = tx.j + 1,
                    !.pc = LoopAfterCall("rollback",
                                         tx.actions[a].rollback_raises,
                                         tx.j >= Len(order))]
    /\ UNCHANGED <<phase, bond, call, result, fr, thr, heap, fsys, fsm, more>>

\* one pass of the commit loop: an exception is logged and swallowed
TxCommit ==
    /\ tx.pc = "commit"
    /\ LET i == tx.i
       IN  tx' = [tx EXCEPT
                    !.calls = Append(@, <<"commit", i>>),
                    !.logged = IF tx.actions[i].commit_raises
                               THEN Append(@, <<"commit", i>>) ELSE @,
                    !.i = i + 1,
                    !.pc = LoopAfterCall("commit",
                                         tx.actions[i].commit_raises,
                                         i >= Len(tx.actions))]
    /\ UNCHANGED <<phase, bond, call, result, fr, thr, heap, fsys, fsm, more>>

NextTx == TxCall \/ TxPreCommit \/ TxRollback \/ TxCommit

SpecTx == Init /\ [][NextTx]_vars

(***************************************************************************)
(* transfiles/actions.py: MoveAction and CopyAction on a file system.      *)
(* The file system is what the three paths of an action hold: file (the    *)
(* source), tmp_name (file + ".bak") and trg_file, each Absent or the      *)
(* content of the file there, and whether trg_file's directory exists.     *)
(***************************************************************************)
\* the file systems an action is constructed on: the source is there or
\* missing, a stale ".bak" may be there, and the target path may hold an
\* earlier file, of other content or of the same (its directory then exists)
FileSystems ==
    {fs \in [file : {"data", Absent}, tmp_name : {Absent, "stale"},
             trg_file : {Absent, "old", "data"}, trg_dir : BOOLEAN] :
        fs.trg_file # Absent => fs.trg_dir}

\* what a method did: the file system after it, the action's
\* __done_renaming, the exception raised ("" when it returned)
Did(fs, done_renaming, raised) ==
    [fs |-> fs, done_renaming |-> done_renaming, raised |-> raised]

\* os.makedirs and shutil.copyfile(from, trg_file), from holding content:
\* copyfile copies everything ("copied"), or raises before it created the
\* target ("not_created"), or after it wrote a part of it ("part_written")
copyfile(fs, done_renaming, content, outcome) ==
    IF content = Absent
    THEN Did([fs EXCEPT !.trg_dir = TRUE], done_renaming, "FileNotFoundError")
    ELSE IF outcome = "copied"
    THEN Did([fs EXCEPT !.trg_dir = TRUE, !.trg_file = content],
             done_renaming, "")
    ELSE IF outcome = "part_written"
    THEN Did([fs EXCEPT !.trg_dir = TRUE, !.trg_file = "part"],
             done_renaming, "OSError")
    ELSE Did([fs EXCEPT !.trg_dir = TRUE], done_renaming, "OSError")

\* MoveAction.pre_commit
MoveAction_pre_commit(fs, outcome) ==
    IF fs.tmp_name # Absent THEN Did(fs, FALSE, "FileExistsError")
    ELSE IF fs.file = Absent THEN Did(fs, FALSE, "FileNotFoundError")
    ELSE LET renamed == [fs EXCEPT !.file = Absent, !.tmp_name = fs.file]
         IN  IF renamed.trg_file # Absent
             THEN Did(renamed, TRUE, "FileExistsError")
             ELSE copyfile(renamed, TRUE, renamed.tmp_name, outcome)

\* MoveAction.commit
MoveAction_commit(fs, done_renaming) ==
    IF ~done_renaming THEN Did(fs, done_renaming, TypeError)
    ELSE Did([fs EXCEPT !.tmp_name = Absent], done_renaming, "")

\* MoveAction.rollback: the rename back, then "os.remove(self.trg_file)"
\* inside try/except Exception
MoveAction_rollback(fs, done_renaming) ==
    IF done_renaming
    THEN Did([fs EXCEPT !.file = fs.tmp_name, !.tmp_name = Absent,
                        !.trg_file = Absent],
             done_renaming, "")
    ELSE Did(fs, done_renaming, "")

\* CopyAction.pre_commit
CopyAction_pre_commit(fs, outcome) ==
    IF fs.trg_file # Absent THEN Did(fs, FALSE, "FileExistsError")
    ELSE copyfile(fs, FALSE, fs.file, outcome)

\* CopyAction.commit
CopyAction_commit(fs, done_renaming) == Did(fs, done_renaming, "")

\* CopyAction.rollback: "os.remove(self.trg_file)" inside try/except
CopyAction_rollback(fs, done_renaming) ==
    Did([fs EXCEPT !.trg_file = Absent], done_renaming, "")

\* importer: "MoveAction(src, trg) if self.delete_src else CopyAction(src,
\* trg)" on the file system as it is
FsConstruct ==
    /\ fsys.pc = "idle"
    /\ \E kind \in {"MoveAction", "CopyAction"}, fs \in FileSystems :
        fsys' = [FsIdle EXCEPT !.pc = "constructed", !.kind = kind,
                               !.fs = fs, !.before = fs]
    /\ UNCHANGED <<phase, bond, call, result, fr, thr, heap, tx, fsm, more>>

FsPreCommit ==
    /\ fsys.pc = "constructed"
    /\ \E outcome \in {"copied", "not_created", "part_written"} :
        LET did == IF fsys.kind = "MoveAction"
                   THEN MoveAction_pre_commit(fsys.fs, outcome)
                   ELSE CopyAction_pre_commit(fsys.fs, outcome)
        IN  fsys' = [fsys EXCEPT !.pc = "pre_committed", !.fs = did.fs,
                                 !.done_renaming = did.done_renaming,
                                 !.raised = did.raised]
    /\ UNCHANGED <<phase, bond, call, result, fr, thr, heap, tx, fsm, more>>

\* process_actions_atomically commits only after pre_commit returned
FsCommit ==
    /\ fsys.pc = "pre_committed"
    /\ fsys.raised = ""
    /\ LET did == IF fsys.kind = "MoveAction"
                  THEN MoveAction_commit(fsys.fs, fsys.done_renaming)
                  ELSE CopyAction_commit(fsys.fs, fsys.done_renaming)
       IN  fsys' = [fsys EXCEPT !.pc = "committed", !.fs = did.fs,
                                !.raised = did.raised]
    /\ UNCHANGED <<phase, bond, call, result, fr, thr, heap, tx, fsm, more>>

\* rollback follows a pre_commit that raised, or that returned when a later
\* action of the list raised
FsRollback ==
    /\ fsys.pc = "pre_committed"
    /\ LET did == IF fsys.kind = "MoveAction"
                  THEN MoveAction_rollback(fsys.fs, fsys.done_renaming)
                  ELSE CopyAction_rollback(fsys.fs, fsys.done_renaming)
       IN  fsys' = [fsys EXCEPT !.pc = "rolled_back", !.fs = did.fs]
    /\ UNCHANGED <<phase, bond, call, result, fr, thr, heap, tx, fsm, more>>

NextFs == FsConstruct \/ FsPreCommit \/ FsCommit \/ FsRollback

SpecFs == Init /\ [][NextFs]_vars

(***************************************************************************)
(* algos/fsm.py: FSM and generate_fsm_for_substring_search.                *)
(* State "q<k>" is the number k.  A jump table is a function from states   *)
(* to functions from symbols to states, both partial as the dicts are.     *)
(* The 52 letters of all_letters are stood for by two of them: the         *)
(* generated tables treat every letter other than the expected one alike.  *)
(***************************************************************************)
all_letters == {"a", "b"}

generate_jump_subtable(source_symbols, target_state) ==
    [sym \in source_symbols |-> target_state]

\* generate_fsm_for_substring_search: the FSM's four fields.  The row of
\* state q expects string[q]: every other letter jumps to "q1" (the dict
\* union adds the expected letter's jump); the last state loops.
generate_fsm_for_substring_search(string) ==
    IF string = <<>>
    THEN [alphabet |-> all_letters, start_state |-> 0, final_states |-> {0},
          jump_table |-> [q \in {0} |-> generate_jump_subtable(all_letters, 0)]]
    ELSE LET last == Len(string) + 1
             others_to_q1(q) ==
                generate_jump_subtable(all_letters \ {string[q]}, 1)
         IN  [alphabet |-> all_letters, start_state |-> 1,
              final_states |-> {last},
              jump_table |->
                [q \in 1..last |->
                    IF q = last THEN generate_jump_subtable(all_letters, last)
                    ELSE [sym \in all_letters |->
                            IF sym = string[q] THEN q + 1
                            ELSE others_to_q1(q)[sym]]]]

FsmGenerate ==
    /\ fsm.pc = "idle"
    /\ \E string \in SeqsUpTo(all_letters, MaxString) :
        fsm' = [FsmIdle EXCEPT !.pc = "generated", !.string = string,
                    !.machine = generate_fsm_for_substring_search(string)]
    /\ UNCHANGED <<phase, bond, call, result, fr, thr, heap, tx, fsys, more>>

\* FSM.accepts: the call, and its return when the input is empty; an input
\* is made of the letters and of a character that is not in the alphabet
FsmAccepts ==
    /\ fsm.pc = "generated"
    /\ \E input_string \in SeqsUpTo(all_letters \cup {"1"}, MaxInput) :
        fsm' = [fsm EXCEPT
                    !.input_string = input_string,
                    !.pos = 1,
                    !.cur_state = fsm.machine.start_state,
                    !.pc = IF input_string = <<>> THEN "returned"
                           ELSE "running",
                    !.passed = fsm.machine.start_state
                                    \in fsm.machine.final_states]
    /\ UNCHANGED <<phase, bond, call, result, fr, thr, heap, tx, fsys, more>>

\* FSM.accepts: one pass of the loop over the input, and the return after
\* the last symbol
FsmStep ==
    /\ fsm.pc = "running"
    /\ LET m == fsm.machine
           sym == fsm.input_string[fsm.pos]
           cur_state == fsm.cur_state
       IN  IF sym \notin m.alphabet
           THEN fsm' = [fsm EXCEPT !.pc = "returned", !.passed = FALSE,
                                   !.comment = "not in our alphabet"]
           ELSE IF cur_state \notin DOMAIN m.jump_table
           THEN fsm' = [fsm EXCEPT !.pc = "returned", !.passed = FALSE,
                                   !.comment = "no jumps from state"]
           ELSE IF sym \notin DOMAIN m.jump_table[cur_state]
           THEN fsm' = [fsm EXCEPT !.pc = "returned", !.passed = FALSE,
                                   !.comment = "no jump from state and symbol"]
           ELSE LET new_state == m.jump_table[cur_state][sym]
                IN  fsm' = [fsm EXCEPT
                                !.cur_state = new_state,
                                !.pos = fsm.pos + 1,
                                !.pc = IF fsm.pos = Len(fsm.input_string)
                                       THEN "returned" ELSE "running",
                                !.passed = new_state \in m.final_states]
    /\ UNCHANGED <<phase, bond, call, result, fr, thr, heap, tx, fsys, more>>

NextFsm == FsmGenerate \/ FsmAccepts \/ FsmStep

SpecFsm == Init /\ [][NextFsm]_vars

(***************************************************************************)
(* The Bond and its callers as objects.  A Python list is an object with   *)
(* an identity: heap.lists maps the identities to the lists' contents,     *)
(* heap.bond holds the identities of the Bond's two schedule lists,        *)
(* heap.held the lists a caller got back and still holds, heap.locals the  *)
(* lists the last call allocated for itself.  Schedule entries and         *)
(* CashFlow are frozen dataclasses, so an entry is its value.              *)
(***************************************************************************)
\* the Bond as a value: its fields with the lists read through
Deref(h) ==
    MkBond(h.lists[h.bond.coupons], h.lists[h.bond.amortizations],
           h.bond.initial_notional)

\* the n-th identity that no live list has
FreshId(live, n) ==
    CHOOSE id \in ListIds \ live :
        Cardinality({x \in ListIds \ live : x < id}) = n - 1

ComprehensionResult_source_when_all_kept(lists, source_id, content, fresh_id) ==
    IF content = lists[source_id] THEN source_id ELSE fresh_id

\* the object "[x for x in source if ...]" evaluates to: a new list
ComprehensionResult(lists, source_id, content, fresh_id) == fresh_id

\* the Bonds of the default initial notional that construction accepts
HeapBonds ==
    {b \in {MkBond(cs, as, 100000) :
                cs \in {c \in SeqsUpTo(CouponEntries, MaxCoupons) :
                            check_dates_ascending(CouponDates(c))},
                as \in {a \in SeqsUpTo(AmortEntries, MaxAmorts) :
                            check_dates_ascending(AmortDates(a))}} :
        Bond_post_init(b.coupons, b.amortizations, b.initial_notional)}

\* what a caller can do to a list it holds: clear it or append to it
Mutated(list, how) ==
    IF how = "clear" \/ list = <<>> THEN <<>>
    ELSE Append(list, list[1])

\* the constructor keeps the two lists it is given
HeapConstruct ==
    /\ heap.pc = "idle"
    /\ \E b \in HeapBonds :
        heap' = [HeapIdle EXCEPT
                    !.pc = "constructed",
                    !.lists = [id \in ListIds |->
                                IF id = 1 THEN b.coupons
                                ELSE IF id = 2 THEN b.amortizations
                                ELSE <<>>],
                    !.live = {1, 2},
                    !.bond = [coupons |-> 1, amortizations |-> 2,
                              initial_notional |-> b.initial_notional],
                    !.constructed = b,
                    !.op = "Bond"]
    /\ UNCHANGED <<phase, bond, call, result, fr, thr, tx, fsys, fsm, more>>

\* notional_on_date, accrued_coupon_on_date and yield_to_maturity return a
\* number, which is no object of the heap: how the call ended is kept, the
\* number is not.  A rejected price ends the call before the solver is
\* reached, so it is paired with one solver outcome only.  The lists of yield_to_maturity's payments_since_date call
\* and its list "flows" are its own; they are garbage once it has returned.
HeapQuery ==
    /\ heap.pc = "constructed"
    /\ \E q \in ({"notional_on_date", "accrued_coupon_on_date"}
                    \X (0..(MaxDate + 1)) \X {0}
                    \X {[converged |-> FALSE, root |-> 0]})
               \cup {y \in {"yield_to_maturity"} \X (0..(MaxDate + 1))
                                \X Prices \X SolverOutcomes :
                        y[3] >= 0 \/ ~y[4].converged} :
        LET op == q[1]
            date == q[2]
            b == Deref(heap)
            out == yield_to_maturity(b, q[3], date, date, None, None, None, q[4])
            res == IF op = "notional_on_date" THEN notional_on_date(b, date)
                   ELSE IF op = "accrued_coupon_on_date"
                   THEN accrued_coupon_on_date(b, date)
                   ELSE out.res
            val == payments_since_date(b, date)
            coupons == ComprehensionResult(heap.lists, heap.bond.coupons, val[1], FreshId(heap.live, 1))
            amortizations == ComprehensionResult(heap.lists, heap.bond.amortizations, val[2], FreshId(heap.live, 2))
            flows == FreshId(heap.live, 3)
        IN  heap' = [heap EXCEPT
                        !.op = op,
                        !.locals = IF op = "yield_to_maturity" /\ out.sub # <<>>
                                   THEN {coupons, amortizations, flows}
                                   ELSE {},
                        !.returned = <<>>,
                        !.res = [res EXCEPT !.val = None]]
    /\ UNCHANGED <<phase, bond, call, result, fr, thr, tx, fsys, fsm, more>>

\* payments_since_date: the two comprehensions and the tuple returned
HeapPaymentsSinceDate ==
    /\ heap.pc = "constructed"
    /\ Cardinality(heap.held) + 2 <= MaxHeld
    /\ \E dt \in 0..(MaxDate + 1) :
        LET val == payments_since_date(Deref(heap), dt)
            coupons == ComprehensionResult(heap.lists, heap.bond.coupons, val[1], FreshId(heap.live, 1))
            amortizations == ComprehensionResult(heap.lists, heap.bond.amortizations, val[2], FreshId(heap.live, 2))
        IN  heap' = [heap EXCEPT
                        !.lists = [@ EXCEPT ![coupons] = val[1],
                                            ![amortizations] = val[2]],
                        !.live = @ \cup {coupons, amortizations},
                        !.held = @ \cup {coupons, amortizations},
                        !.locals = {coupons, amortizations},
                        !.op = "payments_since_date",
                        !.returned = <<coupons, amortizations>>,
                        !.res = Return(val)]
    /\ UNCHANGED <<phase, bond, call, result, fr, thr, tx, fsys, fsm, more>>

\* the caller changes a list it got back; it appends to a list shorter than
\* the longest schedule
HeapCallerMutates ==
    /\ heap.pc = "constructed"
    /\ \E id \in heap.held, how \in {"clear", "append"} :
        /\ how = "append" => Len(heap.lists[id]) \in 1..(MaxCoupons - 1)
        /\ heap' = [heap EXCEPT
                        !.lists = [@ EXCEPT ![id] = Mutated(@, how)],
                        !.op = "caller"]
    /\ UNCHANGED <<phase, bond, call, result, fr, thr, tx, fsys, fsm, more>>

\* the caller drops the lists it holds; a list nothing refers to is freed
HeapCallerDrops ==
    /\ heap.pc = "constructed"
    /\ heap.held # {}
    /\ LET kept == {heap.bond.coupons, heap.bond.amortizations}
       IN  heap' = [heap EXCEPT
                        !.lists = [id \in ListIds |->
                                    IF id \in kept THEN heap.lists[id]
                                    ELSE <<>>],
                        !.live = kept,
                        !.held = {},
                        !.locals = {},
                        !.returned = <<>>,
                        !.op = "caller"]
    /\ UNCHANGED <<phase, bond, call, result, fr, thr, tx, fsys, fsm, more>>

NextHeap ==
    \/ HeapConstruct
    \/ HeapQuery
    \/ HeapPaymentsSinceDate
    \/ HeapCallerMutates
    \/ HeapCallerDrops

SpecHeap == Init /\ [][NextHeap]_vars

(***************************************************************************)
(* Concurrent callers of one Bond.  Each thread runs one query at a time,  *)
(* statement group by statement group; a step of one thread can fall       *)
(* between any two steps of the other.  The Bond (thr.bond) is shared; a   *)
(* frame holds the locals of the thread's call; thr.flows holds the list   *)
(* "flows" of each thread's yield_to_maturity call.                        *)
(***************************************************************************)
FlowsOwner_first_thread(t) == 1

\* where the list "flows" of thread t's yield_to_maturity call lives: it is
\* a local of the call
FlowsOwner(t) == t

\* a step of thread t: its frame becomes f and the list "flows" of its call
\* becomes fl; f.overlapped records that another thread was inside a call
Becomes(t, f, fl) ==
    /\ thr' = [thr EXCEPT
                !.frames[t] = [f EXCEPT !.overlapped = @ \/ \E o \in Threads \ {t} : thr.frames[o].pc \notin {"idle", "done"}],
                !.flows[FlowsOwner(t)] = fl]
    /\ UNCHANGED <<phase, bond, call, result, fr, heap, tx, fsys, fsm, more>>

\* the threads share a Bond that construction accepted, with several
\* coupons and several amortizations
ConcShare ==
    /\ thr.pc = "idle"
    /\ \E b \in {x \in HeapBonds : Len(x.coupons) > 1 /\ Len(x.amortizations) > 1} :
        thr' = [ThrIdle EXCEPT !.pc = "shared", !.bond = b]
    /\ UNCHANGED <<phase, bond, call, result, fr, heap, tx, fsys, fsm, more>>

\* notional_on_date up to the loop
ConcNotionalOnDate(t) ==
    /\ thr.pc = "shared" /\ thr.frames[t].pc = "idle"
    /\ \E date \in 0..(MaxDate + 1) :
        LET f == [NoFrame EXCEPT !.op = "notional_on_date", !.args = <<date>>]
            fl == thr.flows[FlowsOwner(t)]
            ams == thr.bond.amortizations
        IN  IF date < ams[1].amort_date
            THEN Becomes(t, [f EXCEPT !.pc = "done", !.res = Return(thr.bond.initial_notional)], fl)
            ELSE IF date > ams[Len(ams)].amort_date
            THEN Becomes(t, [f EXCEPT !.pc = "done", !.res = Return(0)], fl)
            ELSE Becomes(t, [f EXCEPT !.pc = "notional_loop", !.k = 1], fl)

\* one pass of the loop of notional_on_date, and the return after it
ConcNotionalLoop(t) ==
    /\ thr.frames[t].pc = "notional_loop"
    /\ LET f == thr.frames[t]
           fl == thr.flows[FlowsOwner(t)]
           ams == thr.bond.amortizations
       IN  IF f.k <= Len(ams) /\ ams[f.k].amort_date < f.args[1]
           THEN Becomes(t, [f EXCEPT !.k = @ + 1, !.accum_prc = @ + ams[f.k].value_prc], fl)
           ELSE Becomes(t, [f EXCEPT !.pc = "done", !.res = Return((thr.bond.initial_notional * (100 - f.accum_prc)) \div 100)], fl)

\* accrued_coupon_on_date
ConcAccruedCouponOnDate(t) ==
    /\ thr.pc = "shared" /\ thr.frames[t].pc = "idle"
    /\ \E dt \in 0..(MaxDate + 1) :
        LET f == [NoFrame EXCEPT !.op = "accrued_coupon_on_date", !.args = <<dt>>]
            idx == ClosestCouponIdx(thr.bond.coupons, dt)
            eff == notional_on_date(thr.bond, dt)
            days == dt - coupon_start(thr.bond.coupons, idx)
        IN  Becomes(t, [f EXCEPT !.pc = "done", !.res = IF idx = 0 THEN NoClosestCoupon ELSE Return(Round(eff.val * thr.bond.coupons[idx].yearly_prc * days, 1000 * YEAR_BASE))], thr.flows[FlowsOwner(t)])

\* payments_since_date: the first comprehension
ConcPaymentsSinceDate(t) ==
    /\ thr.pc = "shared" /\ thr.frames[t].pc = "idle"
    /\ \E dt \in 0..(MaxDate + 1) :
        LET Due(c) == CouponDue(c, dt)
        IN  Becomes(t, [NoFrame EXCEPT !.op = "payments_since_date", !.args = <<dt>>, !.pc = "payments_amortizations", !.coupons = SelectSeq(thr.bond.coupons, Due)], thr.flows[FlowsOwner(t)])

\* payments_since_date: the second comprehension and the return
ConcPaymentsAmortizations(t) ==
    /\ thr.frames[t].pc = "payments_amortizations"
    /\ LET f == thr.frames[t]
           Due(a) == AmortDue(a, f.args[1])
       IN  Becomes(t, [f EXCEPT !.pc = "done", !.res = Return(<<f.coupons, SelectSeq(thr.bond.amortizations, Due)>>)], thr.flows[FlowsOwner(t)])

\* yield_to_maturity: the precondition checks and payments_since_date
ConcYieldToMaturity(t) ==
    /\ thr.pc = "shared" /\ thr.frames[t].pc = "idle"
    /\ \E price_buy_prc \in {-1, 103}, date_buy \in 0..(MaxDate + 1) :
        LET f == [NoFrame EXCEPT !.op = "yield_to_maturity", !.args = <<price_buy_prc, date_buy, date_buy, None, None, None, [converged |-> TRUE, root |-> 64215]>>]
            pays == payments_since_date(thr.bond, date_buy)
        IN  IF YtmPrecondition_raises(f.args[1], f.args[2], f.args[3])
            THEN Becomes(t, [f EXCEPT !.pc = "done", !.res = Raise(PreconditionError)], thr.flows[FlowsOwner(t)])
            ELSE Becomes(t, [f EXCEPT !.pc = "ytm_price", !.coupons = pays[1], !.amortizations = pays[2]], thr.flows[FlowsOwner(t)])

\* yield_to_maturity: the accrued coupon, the purchase price and the list
\* "flows" with its first entry
ConcYtmPrice(t) ==
    /\ thr.frames[t].pc = "ytm_price"
    /\ LET f == thr.frames[t]
           acc == IF f.args[4] = None
                  THEN accrued_coupon_on_date(thr.bond, f.args[2])
                  ELSE Return(f.args[4][1])
           n == notional_on_date(thr.bond, f.args[2])
       IN  IF acc.kind = "raise"
           THEN Becomes(t, [f EXCEPT !.pc = "done", !.res = acc], thr.flows[FlowsOwner(t)])
           ELSE IF n.kind = "raise"
           THEN Becomes(t, [f EXCEPT !.pc = "done", !.res = n], thr.flows[FlowsOwner(t)])
           ELSE Becomes(t, [f EXCEPT !.pc = "ytm_coupons", !.k = 1], <<CashFlow(f.args[2], -(PriceBuy(f.args[1], n.val, acc.val, f.args[6]) * 100))>>)

\* yield_to_maturity: one pass of "for coupon in coupons" or of "for amort
\* in amortizations", or the passage from one loop to what follows it
ConcYtmAppend(t) ==
    /\ thr.frames[t].pc \in {"ytm_coupons", "ytm_amortizations"}
    /\ LET f == thr.frames[t]
           fl == thr.flows[FlowsOwner(t)]
       IN  IF f.pc = "ytm_coupons"
           THEN IF f.k <= Len(f.coupons)
                THEN Becomes(t, [f EXCEPT !.k = @ + 1], Append(fl, CouponFlow(f.coupons[f.k], f.args[5])))
                ELSE Becomes(t, [f EXCEPT !.pc = "ytm_amortizations", !.k = 1], fl)
           ELSE IF f.k <= Len(f.amortizations)
                THEN Becomes(t, [f EXCEPT !.k = @ + 1], Append(fl, AmortFlow(f.amortizations[f.k])))
                ELSE Becomes(t, [f EXCEPT !.pc = "ytm_irr"], fl)

\* yield_to_maturity: CashFlows(flows).irr() and the rounding
ConcYtmIrr(t) ==
    /\ thr.frames[t].pc = "ytm_irr"
    /\ LET f == thr.frames[t]
           fl == thr.flows[FlowsOwner(t)]
           r == irr(fl, f.args[7])
           res == IF CashFlows_raises(fl) THEN Raise(InsufficientDataError)
                  ELSE IF r.kind = "raise" THEN r
                  ELSE Return(Round(r.val, 100))
       IN  Becomes(t, [f EXCEPT !.pc = "done", !.res = res], fl)

\* the thread's caller goes on; the locals of the call are gone
ConcReturn(t) ==
    /\ thr.frames[t].pc = "done"
    /\ thr' = [thr EXCEPT !.frames[t] = NoFrame, !.flows[t] = <<>>]
    /\ UNCHANGED <<phase, bond, call, result, fr, heap, tx, fsys, fsm, more>>

NextConc ==
    \/ ConcShare
    \/ \E t \in Threads :
        \/ ConcNotionalOnDate(t)
        \/ ConcNotionalLoop(t)
        \/ ConcAccruedCouponOnDate(t)
        \/ ConcPaymentsSinceDate(t)
        \/ ConcPaymentsAmortizations(t)
        \/ ConcYieldToMaturity(t)
        \/ ConcYtmPrice(t)
        \/ ConcYtmAppend(t)
        \/ ConcYtmIrr(t)
        \/ ConcReturn(t)

SpecConc == Init /\ [][NextConc]_vars

(***************************************************************************)
(* CouponScheduleEntry construction on its own, with arguments that the    *)
(* checks of __post_init__ reject.                                         *)
(***************************************************************************)
CouponScheduleEntryInit ==
    /\ entry.pc = "idle"
    /\ \E cd \in Dates, rd \in {None} \cup {Some(d) : d \in Dates},
          sd \in Dates, v \in {-1, 0, 2000}, p \in {-1, 0, 100} :
        LET e == Coupon(cd, rd, sd, v, p)
        IN  entry' = [pc |-> "done", args |-> e,
                      res |-> IF CouponScheduleEntry_raises(e)
                              THEN Raise(ValidationError) ELSE Return(e)]
    /\ UNCHANGED <<phase, bond, call, result, fr, others, series, mavg, load, rates>>

SpecEntry == Init /\ [][CouponScheduleEntryInit]_vars

(***************************************************************************)
(* OHLCSeries (investments/instruments.py).  An OHLC entry is known by its *)
(* date; a series object is its three fields.                              *)
(***************************************************************************)
MkSeries(instr_code, ohlc_series, name) ==
    [instr_code |-> instr_code, ohlc_series |-> ohlc_series, name |-> name]

OHLCSeries_raises_equal_allowed(ohlc_series) ==
    \E i \in 2..Len(ohlc_series) :
        ohlc_series[i - 1].date > ohlc_series[i].date

\* OHLCSeries.__post_init__: TRUE when ValueError is raised
OHLCSeries_raises(ohlc_series) ==
    \E i \in 2..Len(ohlc_series) :
        ohlc_series[i - 1].date >= ohlc_series[i].date

\* the lists of OHLC entries a series is constructed from
EntryLists == SeqsUpTo([date : Dates], MaxEntries)

\* the series objects that construction accepts
SeriesObjects ==
    {MkSeries(c, s, n) : c \in {"instr", "instr2"},
                         s \in {l \in EntryLists : ~OHLCSeries_raises(l)},
                         n \in {None, Some("name"), Some("name2")}}

\* OHLCSeries.append: the receiver after the call and how the call ended
OHLCSeries_append(self, other) ==
    IF other.instr_code # self.instr_code
    THEN [self |-> self, res |-> Raise("ValueError")]
    ELSE IF other.ohlc_series = <<>>
    THEN [self |-> self, res |-> Return(None)]
    ELSE IF /\ self.ohlc_series # <<>>
            /\ self.ohlc_series[Len(self.ohlc_series)].date
                    >= other.ohlc_series[1].date
    THEN [self |-> self, res |-> Raise("ValueError")]
    ELSE [self |-> MkSeries(self.instr_code,
                            self.ohlc_series \o other.ohlc_series,
                            IF other.name # None THEN other.name
                            ELSE self.name),
          res |-> Return(None)]

\* OHLCSeries(instr_code, ohlc_series, name)
SeriesConstruct ==
    /\ series.pc = "idle"
    /\ \E ohlc_series \in EntryLists, name \in {None, Some("name")} :
        series' = IF OHLCSeries_raises(ohlc_series)
                  THEN [SeriesIdle EXCEPT !.pc = "failed",
                                          !.res = Raise("ValueError")]
                  ELSE [SeriesIdle EXCEPT
                            !.pc = "constructed",
                            !.self = MkSeries("instr", ohlc_series, name)]
    /\ UNCHANGED <<phase, bond, call, result, fr, others, entry, mavg, load, rates>>

\* self.append(other) on a constructed series; before is the receiver as
\* it was when the call was made
SeriesAppend ==
    /\ series.pc \in {"constructed", "appended"}
    /\ \E other \in SeriesObjects :
        /\ Len(series.self.ohlc_series) + Len(other.ohlc_series) <= MaxDate + 1
        /\ series' = [pc |-> "appended",
                      self |-> OHLCSeries_append(series.self, other).self,
                      before |-> series.self,
                      other |-> other,
                      res |-> OHLCSeries_append(series.self, other).res]
    /\ UNCHANGED <<phase, bond, call, result, fr, others, entry, mavg, load, rates>>

SpecSeries == Init /\ [][SeriesConstruct \/ SeriesAppend]_vars

(***************************************************************************)
(* MovingAvgCalculator (investments/utils.py).  Its elements and agg_sum   *)
(* are Python floats; the model keeps the rounding of float addition, on   *)
(* floats with a mantissa of MantissaBits bits instead of 53: the integers *)
(* below 2^MantissaBits are exact, above them only every second, fourth,   *)
(* ... integer is a float.  The list index cur_idx counts from 0 as in the *)
(* code; buffer[cur_idx + 1] is the code's self.buffer[self.cur_idx].      *)
(***************************************************************************)
\* the float nearest to the exact number x (a tie goes to the even mantissa)
Float(x) ==
    LET a == Abs(x)
        ulp == CHOOSE u \in {2^i : i \in 0..MantissaBits} :
                    /\ a < 2^MantissaBits * u
                    /\ u = 1 \/ a >= 2^(MantissaBits - 1) * u
        r == Round(a, ulp) * ulp
    IN  IF x < 0 THEN -r ELSE r

\* MovingAvgCalculator(window)
MavgInit ==
    /\ mavg.pc = "idle"
    /\ \E window \in 1..MaxWindow :
        mavg' = IF window < 2
                THEN [MavgIdle EXCEPT !.pc = "failed", !.window = window,
                                      !.res = Raise("ValueError")]
                ELSE [MavgIdle EXCEPT !.pc = "ready", !.window = window,
                                      !.buffer = [i \in 1..window |-> 0]]
    /\ UNCHANGED <<phase, bond, call, result, fr, others, entry, series, load, rates>>

\* MovingAvgCalculator.add(elem); added lists the elements added so far
MavgAdd ==
    /\ mavg.pc = "ready"
    /\ Len(mavg.added) < MaxAdds
    /\ \E elem \in {1, 2, 2^MantissaBits} :
        LET val_to_subtract == mavg.buffer[mavg.cur_idx + 1]
        IN  mavg' = [mavg EXCEPT
                        !.buffer = [@ EXCEPT ![mavg.cur_idx + 1] = elem],
                        !.agg_sum = Float(Float(@ - val_to_subtract) + elem),
                        !.cur_idx = IF @ # mavg.window - 1 THEN @ + 1 ELSE 0,
                        !.num_inserted = IF @ < mavg.window THEN @ + 1 ELSE @,
                        !.added = Append(@, elem),
                        !.res = NoResult]
    /\ UNCHANGED <<phase, bond, call, result, fr, others, entry, series, load, rates>>

\* MovingAvgCalculator.avg(): None, or the quotient agg_sum / window, kept
\* as its numerator and denominator
MavgAvg ==
    /\ mavg.pc = "ready"
    /\ mavg.res = NoResult
    /\ mavg' = [mavg EXCEPT
                    !.res = IF mavg.num_inserted >= mavg.window
                            THEN Return(Some(<<mavg.agg_sum, mavg.window>>))
                            ELSE Return(None)]
    /\ UNCHANGED <<phase, bond, call, result, fr, others, entry, series, load, rates>>

SpecMavg == Init /\ [][MavgInit \/ MavgAdd \/ MavgAvg]_vars

(***************************************************************************)
(* Instrument.load_ohlc_table (investments/moex.py) on the instrument      *)
(* "instr".  The partial loader is the caller's: it may reply with any     *)
(* series object, whatever date it is asked for.  load.requests lists the  *)
(* dates the loader was called with and load.replies what it returned.     *)
(***************************************************************************)
LoadNextDate_same_day(addition) ==
    Some(addition.ohlc_series[Len(addition.ohlc_series)].date)

\* "date = addition.ohlc_series[-1].date + datetime.timedelta(days=1)"
LoadNextDate(addition) ==
    Some(addition.ohlc_series[Len(addition.ohlc_series)].date + 1)

\* the call, up to the first call of partial_loader
LoadCall ==
    /\ load.pc = "idle"
    /\ \E from_date \in {None} \cup {Some(d) : d \in Dates} :
        load' = [LoadIdle EXCEPT
                    !.pc = "loading",
                    !.from_date = from_date,
                    !.series = MkSeries("instr", <<>>, None),
                    !.date = from_date,
                    !.requests = <<from_date>>]
    /\ UNCHANGED <<phase, bond, call, result, fr, others, entry, series, mavg, rates>>

\* partial_loader(self, date) returns
LoaderReply ==
    /\ load.pc = "loading"
    /\ \E addition \in {s \in SeriesObjects : s.name = None} :
        load' = [load EXCEPT !.pc = "loaded",
                             !.replies = Append(@, addition)]
    /\ UNCHANGED <<phase, bond, call, result, fr, others, entry, series, mavg, rates>>

\* the rest of the loop body, up to the next call of partial_loader: break
\* and return on an empty reply, otherwise append it (a ValueError of
\* append is not caught) and move the date
LoadProcess ==
    /\ load.pc = "loaded"
    /\ LET addition == load.replies[Len(load.replies)]
           appended == OHLCSeries_append(load.series, addition)
       IN  load' =
            IF addition.ohlc_series = <<>>
            THEN [load EXCEPT !.pc = "returned",
                              !.res = Return(load.series)]
            ELSE IF appended.res.kind = "raise"
            THEN [load EXCEPT !.pc = "raised", !.res = appended.res]
            ELSE [load EXCEPT !.pc = "loading",
                              !.series = appended.self,
                              !.date = LoadNextDate(addition),
                              !.requests = Append(@, LoadNextDate(addition))]
    /\ UNCHANGED <<phase, bond, call, result, fr, others, entry, series, mavg, rates>>

\* the function's own steps are taken; the loader may never reply
SpecLoad ==
    Init /\ [][LoadCall \/ LoaderReply \/ LoadProcess]_vars
        /\ WF_vars(LoadProcess)

(***************************************************************************)
(* RatesTable (scrapers/parse_cbr.py).  by_dates is a function from the    *)
(* dates of the table to functions from currency pairs to rates; rates are *)
(* whole numbers and rel_eps is in whole percents.                         *)
(***************************************************************************)
\* RatesTable.find_violating_rates: the dict returned, as a function from
\* the pairs in it to <<rate_now, rate_yesterday>>.  sorted_dates[-2] of a
\* table of one date, like sorted_dates[-1] of an empty one, is an
\* IndexError; two zero rates of a pair divide by zero.
find_violating_rates(by_dates, rel_eps) ==
    LET sorted_dates == DOMAIN by_dates
        last_date == CHOOSE d \in sorted_dates : \A e \in sorted_dates : e <= d
        prev_date == CHOOSE d \in sorted_dates \ {last_date} :
                        \A e \in sorted_dates \ {last_date} : e <= d
        last_rates == by_dates[last_date]
        prev_rates == by_dates[prev_date]
        both == {p \in DOMAIN last_rates : p \in DOMAIN prev_rates}
        largest(p) == IF Abs(last_rates[p]) >= Abs(prev_rates[p])
                      THEN Abs(last_rates[p]) ELSE Abs(prev_rates[p])
    IN  IF Cardinality(sorted_dates) < 2 THEN Raise(IndexError)
        ELSE IF \E p \in both : largest(p) = 0 THEN Raise(ZeroDivisionError)
        ELSE Return([p \in {q \in both :
                                (last_rates[q] - prev_rates[q]) * 100
                                    > rel_eps * largest(q)}
                        |-> <<last_rates[p], prev_rates[p]>>])

\* RatesTable(rates_by_dates)
RatesConstruct ==
    /\ rates.pc = "idle"
    /\ \E dates \in SUBSET Dates :
        \E by_dates \in [dates -> UNION {[pairs -> {0, 70, 80}] :
                                    pairs \in SUBSET {"EURRUB", "USDRUB"}}] :
            rates' = [RatesIdle EXCEPT !.pc = "constructed",
                                       !.by_dates = by_dates]
    /\ UNCHANGED <<phase, bond, call, result, fr, others, entry, series, mavg, load>>

\* a call of find_violating_rates
RatesFind ==
    /\ rates.pc = "constructed"
    /\ \E rel_eps \in {1, 13} :
        rates' = [rates EXCEPT
                    !.pc = "found",
                    !.rel_eps = rel_eps,
                    !.res = find_violating_rates(rates.by_dates, rel_eps)]
    /\ UNCHANGED <<phase, bond, call, result, fr, others, entry, series, mavg, load>>

SpecRates == Init /\ [][RatesConstruct \/ RatesFind]_vars

(***************************************************************************)
(* Properties.                                                             *)
(***************************************************************************)
Ended(op) == phase = "done" /\ call.op = op

Constructed == phase \in {"ready", "done"}

StrictlyAscending(s) == \A i, j \in 1..Len(s) : i < j => s[i] < s[j]

\* the sum of value_prc over the amortizations dated strictly before d
PrcRetiredBefore(amortizations, d) ==
    LET Earlier(a) == a.amort_date < d
    IN  SumFrom(ValuePrcs(SelectSeq(amortizations, Earlier)), 1)

\* C1: notional_on_date(d) is initial_notional before the first amortization
\* date, 0 strictly after the last one, and otherwise initial_notional *
\* (1 - S/100) with S the sum of value_prc over exactly the entries dated
\* strictly before d.
C1_NotionalOnDate ==
    Ended("notional_on_date") =>
        LET d == call.args[1]
            ams == bond.amortizations
            S == PrcRetiredBefore(ams, d)
        IN  result =
                IF d < ams[1].amort_date THEN Return(bond.initial_notional)
                ELSE IF d > ams[Len(ams)].amort_date THEN Return(0)
                ELSE Return((bond.initial_notional * (100 - S)) \div 100)

\* C1 witness: a query on the last of several amortization dates returns a
\* notional reduced by the earlier amortizations only.
C1_Witness ==
    /\ Ended("notional_on_date")
    /\ Len(bond.amortizations) > 1
    /\ call.args[1] = bond.amortizations[Len(bond.amortizations)].amort_date
    /\ result.kind = "return"
    /\ result.val > 0 /\ result.val < bond.initial_notional

\* C2: accrued_coupon_on_date(d) returns 0, and does not fail, when the bond
\* has no coupon with coupon_date >= d.
C2_AccruedZeroWithoutUpcomingCoupon ==
    (/\ Ended("accrued_coupon_on_date")
     /\ ~(\E i \in 1..Len(bond.coupons) :
            bond.coupons[i].coupon_date >= call.args[1]))
        => result = Return(0)

\* C3: construction fails with a validation error whenever the amort_date,
\* coupon_date or start_date sequence is not strictly ascending, and every
\* constructed Bond has all three strictly ascending.
C3_SchedulesAscending ==
    /\ (call.op = "Bond"
          /\ (\/ ~StrictlyAscending(AmortDates(call.args[2]))
              \/ ~StrictlyAscending(CouponDates(call.args[1]))
              \/ ~StrictlyAscending(StartDates(call.args[1]))))
        => (phase = "failed" /\ result = Raise(ValidationError))
    /\ Constructed =>
        /\ StrictlyAscending(AmortDates(bond.amortizations))
        /\ StrictlyAscending(CouponDates(bond.coupons))
        /\ StrictlyAscending(StartDates(bond.coupons))

\* C3 witness: a schedule rejected although its coupon dates and
\* amortizations are in order: only its start dates are not ascending.
C3_Witness ==
    /\ phase = "failed" /\ call.op = "Bond"
    /\ Len(call.args[1]) > 1
    /\ StrictlyAscending(CouponDates(call.args[1]))
    /\ StrictlyAscending(AmortDates(call.args[2]))
    /\ ~StrictlyAscending(StartDates(call.args[1]))
    /\ SumFrom(ValuePrcs(call.args[2]), 1) = 100
    /\ SumFrom(Values(call.args[2]), 1) = call.args[3]

\* C4: every constructed Bond has value_prc summing to exactly 100 and
\* value summing to exactly initial_notional, hence at least one
\* amortization entry; any other schedule, the empty one included, makes
\* construction raise and no Bond is returned.
C4_AmortizationComplete ==
    /\ (call.op = "Bond"
          /\ (\/ SumFrom(ValuePrcs(call.args[2]), 1) # 100
              \/ SumFrom(Values(call.args[2]), 1) # call.args[3]))
        => (phase = "failed" /\ result = Raise(ValidationError)
                /\ bond = NoBond)
    /\ Constructed =>
        /\ SumFrom(ValuePrcs(bond.amortizations), 1) = 100
        /\ SumFrom(Values(bond.amortizations), 1) = bond.initial_notional
        /\ Len(bond.amortizations) >= 1

\* C4 witness: a schedule in date order whose percentages sum to 100 is
\* rejected because its amounts do not sum to the initial notional.
C4_Witness ==
    /\ phase = "failed" /\ call.op = "Bond"
    /\ StrictlyAscending(CouponDates(call.args[1]))
    /\ StrictlyAscending(StartDates(call.args[1]))
    /\ StrictlyAscending(AmortDates(call.args[2]))
    /\ SumFrom(ValuePrcs(call.args[2]), 1) = 100
    /\ SumFrom(Values(call.args[2]), 1) # call.args[3]

FindRootEnded == fr.pc \in {"returned", "raised"}

\* C5: find_root returns the triple (root, iterations_used, final_abs_error)
\* whenever iteration stops because |f(x)| <= epsilon, the case |f(x)| =
\* epsilon included; when the initial guess already satisfies the tolerance
\* it returns (initial_guess, 0, |f(initial_guess)|) without calling the
\* derivative.
C5_ReturnsWheneverWithinTolerance ==
    (FindRootEnded /\ fr.observed_eps <= fr.eps) =>
        /\ fr.pc = "returned"
        /\ fr.out = Return(<<fr.cur_x, fr.num_iter, fr.observed_eps>>)
        /\ Abs(f_at(fr.f, fr.init_guess)) <= fr.eps =>
            /\ fr.out = Return(<<fr.init_guess, 0,
                                 Abs(f_at(fr.f, fr.init_guess))>>)
            /\ fr.der_calls = 0

\* C6: any triple find_root returns satisfies final_abs_error = |f(root)| <=
\* epsilon, and when max_iterations steps have been performed with |f(x)|
\* still above epsilon it raises the non-convergence error.
C6_NeverReturnsNonConverged ==
    /\ fr.pc = "returned" =>
        /\ fr.out.kind = "return"
        /\ fr.out.val[3] = Abs(f_at(fr.f, fr.out.val[1]))
        /\ fr.out.val[3] <= fr.eps
    /\ (FindRootEnded /\ fr.num_iter = fr.max_iter
            /\ fr.observed_eps > fr.eps)
        => fr.out = Raise(NonConvergenceError)

\* C6 witness: all max_iterations steps were made, |f(x)| is still above
\* epsilon, and the call has raised.
C6_Witness ==
    /\ fr.pc = "raised"
    /\ fr.max_iter > 0 /\ fr.num_iter = fr.max_iter
    /\ fr.observed_eps > fr.eps
    /\ fr.out = Raise(NonConvergenceError)

\* C7: for every coupon c of the exchange schedule RU000A0JWSQ7,
\* accrued_coupon_on_date(c.coupon_date) equals c.value.
C7_AccruedRoundTrip ==
    (Ended("accrued_coupon_on_date") /\ bond = Fixture) =>
        \A i \in 1..Len(bond.coupons) :
            bond.coupons[i].coupon_date = call.args[1]
                => result = Return(bond.coupons[i].value)

\* C7 witness: the coupon of 2018-06-08 (day 637), whose start_date is not
\* the previous coupon date, is reproduced on an amortizing schedule.
C7_Witness ==
    /\ Ended("accrued_coupon_on_date") /\ bond = Fixture
    /\ call.args[1] = 637
    /\ bond.coupons[7].coupon_date = 637
    /\ bond.coupons[7].start_date # bond.coupons[6].coupon_date
    /\ result = Return(2917)

\* C8: payments_since_date(d) returns exactly the coupons with coupon_date
\* >= d and exactly the amortizations with amort_date >= d, a payment dated
\* d included, each list in schedule order with nothing duplicated or added.
C8_PaymentsSinceDate ==
    Ended("payments_since_date") =>
        LET d == call.args[1]
            cs == result.val[1]
            as == result.val[2]
            nc == Cardinality({i \in 1..Len(bond.coupons) :
                                    bond.coupons[i].coupon_date >= d})
            na == Cardinality({i \in 1..Len(bond.amortizations) :
                                    bond.amortizations[i].amort_date >= d})
        IN  /\ result.kind = "return"
            /\ Len(cs) = nc /\ Len(as) = na
            /\ cs = SubSeq(bond.coupons, Len(bond.coupons) - nc + 1,
                           Len(bond.coupons))
            /\ as = SubSeq(bond.amortizations,
                           Len(bond.amortizations) - na + 1,
                           Len(bond.amortizations))
            /\ \A i \in 1..Len(cs) : cs[i].coupon_date >= d
            /\ \A i \in 1..Len(as) : as[i].amort_date >= d

\* C8 witness: a coupon dated exactly d is returned and an earlier one is
\* left out.
C8_Witness ==
    /\ Ended("payments_since_date")
    /\ Len(bond.coupons) = 2
    /\ bond.coupons[2].coupon_date = call.args[1]
    /\ result.val[1] = <<bond.coupons[2]>>
    /\ Len(result.val[2]) >= 1

\* C9: yield_to_maturity raises the domain precondition error when
\* price_buy_prc < 0 or date_buy > date_settle, before it computes accrued
\* interest, builds cash flows or invokes the root finder, whatever the
\* other arguments are.
C9_PreconditionsFirst ==
    (Ended("yield_to_maturity")
        /\ (call.args[1] < 0 \/ call.args[2] > call.args[3]))
        => /\ result = Raise(PreconditionError)
           /\ call.sub = <<>>
           /\ call.flows = <<>>

\* C9 witness: a settle date before the buy date is rejected on a call whose
\* price is valid and whose accrued-interest computation would have failed.
C9_Witness ==
    /\ Ended("yield_to_maturity")
    /\ call.args[1] >= 0
    /\ call.args[2] > call.args[3]
    /\ call.args[4] = None
    /\ accrued_coupon_on_date(bond, call.args[2]).kind = "raise"
    /\ result = Raise(PreconditionError)

\* C10: every call of notional_on_date, accrued_coupon_on_date,
\* payments_since_date or yield_to_maturity on a constructed Bond ends by
\* returning a value or by raising one of the enumerated errors (domain
\* precondition, insufficient data, non-convergence).
C10_OnlyEnumeratedErrors ==
    phase = "done" =>
        \/ result.kind = "return"
        \/ (result.kind = "raise" /\ result.err \in EnumeratedErrors)

\* the entries of seq, in order, whose date (as dates lists it) is >= d
FromDate(seq, dates, d) ==
    LET keep == {i \in 1..Len(seq) : dates[i] >= d}
        nth(k) == CHOOSE i \in keep : Cardinality({j \in keep : j <= i}) = k
    IN  [k \in 1..Cardinality(keep) |-> seq[nth(k)]]

ReachedCashFlows == \E i \in 1..Len(call.sub) : call.sub[i] = "CashFlows"
ReachedSolver == \E i \in 1..Len(call.sub) : call.sub[i] = "find_root_newton"

\* C11 (as stated): CashFlows construction raises the insufficient-data
\* error if and only if there are fewer than two flows, or no strictly
\* positive flow, or no strictly negative flow, and the root finder is then
\* never invoked; yield_to_maturity called with a date_settle later than
\* every coupon and amortization date and an explicit accrued_coupon raises
\* this error.
C11_InsufficientData_AsStated ==
    Ended("yield_to_maturity") =>
        /\ ReachedCashFlows =>
            /\ (result = Raise(InsufficientDataError))
                <=> (\/ Len(call.flows) < 2
                     \/ Cardinality({i \in 1..Len(call.flows) :
                                        call.flows[i].flow > 0}) = 0
                     \/ Cardinality({i \in 1..Len(call.flows) :
                                        call.flows[i].flow < 0}) = 0)
            /\ result = Raise(InsufficientDataError) => ~ReachedSolver
        /\ (/\ call.args[4] # None
            /\ \A i \in 1..Len(bond.coupons) :
                    bond.coupons[i].coupon_date < call.args[3]
            /\ \A i \in 1..Len(bond.amortizations) :
                    bond.amortizations[i].amort_date < call.args[3])
            => result = Raise(InsufficientDataError)

\* C11 (amended): the same, the last part for calls that satisfy the
\* preconditions price_buy_prc >= 0 and date_buy <= date_settle (a call
\* that does not raises the domain precondition error first).
C11_InsufficientData ==
    Ended("yield_to_maturity") =>
        /\ ReachedCashFlows =>
            /\ (result = Raise(InsufficientDataError))
                <=> (\/ Len(call.flows) < 2
                     \/ Cardinality({i \in 1..Len(call.flows) :
                                        call.flows[i].flow > 0}) = 0
                     \/ Cardinality({i \in 1..Len(call.flows) :
                                        call.flows[i].flow < 0}) = 0)
            /\ result = Raise(InsufficientDataError) => ~ReachedSolver
        /\ ~ReachedCashFlows => result # Raise(InsufficientDataError)
        /\ (/\ call.args[1] >= 0 /\ call.args[2] <= call.args[3]
            /\ call.args[4] # None
            /\ \A i \in 1..Len(bond.coupons) :
                    bond.coupons[i].coupon_date < call.args[3]
            /\ \A i \in 1..Len(bond.amortizations) :
                    bond.amortizations[i].amort_date < call.args[3])
            => (ReachedCashFlows /\ result = Raise(InsufficientDataError))

\* C11 witness: two flows, the purchase outflow zero and the repayment
\* positive, are rejected for want of a negative flow without the root
\* finder being invoked.
C11_Witness ==
    /\ Ended("yield_to_maturity")
    /\ Len(call.flows) >= 2
    /\ \E i \in 1..Len(call.flows) : call.flows[i].flow > 0
    /\ ~(\E i \in 1..Len(call.flows) : call.flows[i].flow < 0)
    /\ result = Raise(InsufficientDataError)
    /\ ~ReachedSolver

\* C12: when the root finder raises the non-convergence error during
\* yield_to_maturity, that same error reaches the caller: it is not caught,
\* retried or replaced by a default yield.
C12_NonConvergencePropagates ==
    (Ended("yield_to_maturity") /\ call.solved = Raise(NonConvergenceError))
        => result = Raise(NonConvergenceError)

\* C12 witness: the root finder was invoked on a valid flow list, did not
\* converge, and the call raised.
C12_Witness ==
    /\ Ended("yield_to_maturity")
    /\ ReachedSolver
    /\ call.solved = Raise(NonConvergenceError)
    /\ result = Raise(NonConvergenceError)

\* C19: accrued_coupon_on_date(d) measures the accrual period from the
\* closest upcoming coupon's own start_date only when that coupon is the
\* first of the schedule, and otherwise from the coupon_date of the entry
\* before it, whatever the closest coupon's start_date is; the notional is
\* notional_on_date(d), which an amortization dated exactly d does not
\* reduce.
C19_AccrualPeriodStart ==
    Ended("accrued_coupon_on_date") =>
        LET d == call.args[1]
            cs == bond.coupons
            ams == bond.amortizations
            upcoming == {i \in 1..Len(cs) : cs[i].coupon_date >= d}
        IN  \A i \in upcoming :
                (\A j \in upcoming : i <= j) =>
                    LET start == IF i = 1 THEN cs[1].start_date
                                 ELSE cs[i - 1].coupon_date
                        notional ==
                            IF d < ams[1].amort_date
                            THEN bond.initial_notional
                            ELSE IF d > ams[Len(ams)].amort_date THEN 0
                            ELSE (bond.initial_notional
                                    * (100 - PrcRetiredBefore(ams, d)))
                                        \div 100
                    IN  /\ result = Return(Round(notional * cs[i].yearly_prc
                                                    * (d - start),
                                                 1000 * YEAR_BASE))
                        /\ notional_on_date(bond, d) = Return(notional)

\* C19 witness: the closest coupon is the second one, its start_date is not
\* the first coupon's date, an amortization is dated exactly d, and the
\* accrued amount is that of the unreduced notional over the days since the
\* first coupon's date.
C19_Witness ==
    /\ Ended("accrued_coupon_on_date")
    /\ Len(bond.coupons) = 2
    /\ bond.coupons[1].coupon_date < call.args[1]
    /\ bond.coupons[2].coupon_date >= call.args[1]
    /\ bond.coupons[2].start_date # bond.coupons[1].coupon_date
    /\ bond.coupons[1].start_date # bond.coupons[1].coupon_date
    /\ \E k \in 1..Len(bond.amortizations) :
            /\ bond.amortizations[k].amort_date = call.args[1]
            /\ k > 1
    /\ result.kind = "return"
    /\ result.val > 0

\* C20 (as stated): the flow list yield_to_maturity hands to the solver is
\* first one negative flow dated date_buy, then one positive flow per coupon
\* with coupon_date >= date_settle in schedule order (its value, times
\* (1 - coupon_tax_prc) when a tax rate is given), then one positive flow
\* per amortization with amort_date >= date_settle in schedule order (its
\* value); payments dated before date_settle are not included.
C20_FlowList_AsStated ==
    (Ended("yield_to_maturity") /\ ReachedSolver) =>
        LET date_buy == call.args[2]
            date_settle == call.args[3]
            tax == call.args[5]
            cs == FromDate(bond.coupons, CouponDates(bond.coupons),
                           date_settle)
            as == FromDate(bond.amortizations,
                           AmortDates(bond.amortizations), date_settle)
            fl == call.flows
        IN  /\ Len(fl) = 1 + Len(cs) + Len(as)
            /\ fl[1].date = date_buy
            /\ fl[1].flow < 0
            /\ \A i \in 1..Len(cs) :
                /\ fl[1 + i].date = cs[i].coupon_date
                /\ fl[1 + i].flow > 0
                /\ fl[1 + i].flow =
                        IF tax = None THEN cs[i].value * 100
                        ELSE cs[i].value * (100 - tax[1])
            /\ \A i \in 1..Len(as) :
                /\ fl[1 + Len(cs) + i].date = as[i].amort_date
                /\ fl[1 + Len(cs) + i].flow > 0
                /\ fl[1 + Len(cs) + i].flow = as[i].value * 100
            /\ \A i \in 2..Len(fl) : fl[i].date >= date_settle

\* C20 (amended): the flow list yield_to_maturity builds is first one flow
\* dated date_buy whose amount is minus the purchase outflow, then one flow
\* per coupon with coupon_date >= date_settle in schedule order (its value,
\* times (1 - coupon_tax_prc) when a tax rate is given), then one flow per
\* amortization with amort_date >= date_settle in schedule order (its
\* value); payments dated before date_settle are not included.
C20_FlowList ==
    (Ended("yield_to_maturity") /\ ReachedCashFlows) =>
        LET price_buy_prc == call.args[1]
            date_buy == call.args[2]
            date_settle == call.args[3]
            tax == call.args[5]
            accrued == IF call.args[4] # None THEN call.args[4][1]
                       ELSE accrued_coupon_on_date(bond, date_buy).val
            commission == IF call.args[6] # None THEN call.args[6][1] ELSE 0
            outflow == (price_buy_prc * notional_on_date(bond, date_buy).val)
                            \div 100 + accrued + commission
            cs == FromDate(bond.coupons, CouponDates(bond.coupons),
                           date_settle)
            as == FromDate(bond.amortizations,
                           AmortDates(bond.amortizations), date_settle)
            fl == call.flows
        IN  /\ Len(fl) = 1 + Len(cs) + Len(as)
            /\ fl[1].date = date_buy
            /\ fl[1].flow = 0 - outflow * 100
            /\ \A i \in 1..Len(cs) :
                /\ fl[1 + i].date = cs[i].coupon_date
                /\ fl[1 + i].flow =
                        IF tax = None THEN cs[i].value * 100
                        ELSE cs[i].value * (100 - tax[1])
            /\ \A i \in 1..Len(as) :
                /\ fl[1 + Len(cs) + i].date = as[i].amort_date
                /\ fl[1 + Len(cs) + i].flow = as[i].value * 100
            /\ \A i \in 2..Len(fl) : fl[i].date >= date_settle

\* C20 witness: a taxed call bought before settlement, with a coupon dated
\* between the two left out and a later coupon and amortization included.
C20_Witness ==
    /\ Ended("yield_to_maturity") /\ ReachedCashFlows
    /\ call.args[2] < call.args[3]
    /\ call.args[5] # None
    /\ \E i \in 1..Len(bond.coupons) :
            /\ bond.coupons[i].coupon_date >= call.args[2]
            /\ bond.coupons[i].coupon_date < call.args[3]
    /\ Len(call.flows) = 3
    /\ call.flows[1].flow < 0
    /\ call.flows[2].flow > 0 /\ call.flows[2].flow < 200000
    /\ call.flows[3].flow > 0

\* the calls of one method, in order, as the indices of the actions called
CallsOf(method) ==
    LET made == SelectSeq(tx.calls, LAMBDA c : c[1] = method)
    IN  [k \in 1..Len(made) |-> made[k][2]]

\* the position in tx.calls of the first call of a method (0 when none)
FirstCall(method) ==
    LET at == {k \in 1..Len(tx.calls) : tx.calls[k][1] = method}
    IN  IF at = {} THEN 0 ELSE CHOOSE k \in at : \A m \in at : k <= m

\* C15: if pre_commit succeeds for every action, pre_commit is called
\* exactly once on each action in list order, then commit exactly once on
\* each action in list order, and rollback never; in every run commit is
\* called on no action unless pre_commit has already succeeded for all
\* actions of the list.
C15_CommitAfterAllPreCommits ==
    LET n == Len(tx.actions)
    IN  /\ (/\ tx.pc = "returned"
            /\ \A k \in 1..n : ~tx.actions[k].pre_commit_raises)
            => tx.calls = [k \in 1..n |-> <<"pre_commit", k>>]
                            \o [k \in 1..n |-> <<"commit", k>>]
        /\ FirstCall("commit") > 0 =>
            \A k \in 1..n :
                /\ ~tx.actions[k].pre_commit_raises
                /\ \E m \in 1..(FirstCall("commit") - 1) :
                        tx.calls[m] = <<"pre_commit", k>>

\* C15 witness: a run over several actions whose pre_commits all succeeded
\* has returned after committing them, a failing commit among them.
C15_Witness ==
    /\ tx.pc = "returned"
    /\ Len(tx.actions) >= 2
    /\ \A k \in 1..Len(tx.actions) : ~tx.actions[k].pre_commit_raises
    /\ CallsOf("commit") = [k \in 1..Len(tx.actions) |-> k]
    /\ tx.logged # <<>>

\* C16: if pre_commit of the k-th action raises, rollback is called exactly
\* once on the failed action and on each earlier action, in reverse list
\* order starting with the failed action itself; actions after the failed
\* one receive no call at all, and commit is called on no action.
C16_RollbackInReverseOrder ==
    LET n == Len(tx.actions)
    IN  \A k \in 1..n :
            (/\ tx.pc = "returned"
             /\ tx.actions[k].pre_commit_raises
             /\ \A m \in 1..(k - 1) : ~tx.actions[m].pre_commit_raises)
            => /\ tx.calls = [m \in 1..k |-> <<"pre_commit", m>>]
                    \o [m \in 1..k |-> <<"rollback", k + 1 - m>>]
               /\ \A c \in 1..Len(tx.calls) : tx.calls[c][2] <= k
               /\ CallsOf("commit") = <<>>

\* C16 witness: the second of three actions failed in pre_commit; the run
\* returned after rolling back the second and then the first, the first
\* rollback raising.
C16_Witness ==
    /\ tx.pc = "returned"
    /\ Len(tx.actions) = 3
    /\ ~tx.actions[1].pre_commit_raises
    /\ tx.actions[2].pre_commit_raises
    /\ tx.actions[2].rollback_raises
    /\ CallsOf("rollback") = <<2, 1>>
    /\ CallsOf("pre_commit") = <<1, 2>>

\* C17: for MoveAction and CopyAction, rollback after pre_commit restores
\* the file system to its state before pre_commit, whether pre_commit
\* completed or raised part-way: the source is at its original path, no
\* ".bak" file made by the action remains, and the target path holds what it
\* held before.
C17_RollbackRestores ==
    fsys.pc = "rolled_back" =>
        /\ fsys.fs.file = fsys.before.file
        /\ fsys.fs.tmp_name = fsys.before.tmp_name
        /\ fsys.fs.trg_file = fsys.before.trg_file

\* seq contains sub as a contiguous subsequence
Contains(seq, sub) ==
    \E k \in 0..(Len(seq) - Len(sub)) :
        \A m \in 1..Len(sub) : seq[k + m] = sub[m]

\* C18: the FSM generated for a search string s over the letters accepts an
\* input of letters if and only if the input contains s as a contiguous
\* substring, also when a partial match is broken by a character that
\* starts a new match; for the empty s it accepts every input of letters.
C18_AcceptsIffContains ==
    (/\ fsm.pc = "returned"
     /\ \A k \in 1..Len(fsm.input_string) :
            fsm.input_string[k] \in all_letters)
        => (fsm.passed <=> Contains(fsm.input_string, fsm.string))

\* C14: the four queries leave the Bond's fields and both schedule lists
\* unchanged, whether they return or raise; the lists payments_since_date
\* returns and the lists yield_to_maturity builds are new objects, so
\* nothing the caller does to a returned list alters the Bond's own coupons
\* or amortizations.
C14_BondUnchanged ==
    heap.pc = "constructed" =>
        LET own == {heap.bond.coupons, heap.bond.amortizations}
        IN  /\ heap.bond = [coupons |-> 1, amortizations |-> 2,
                            initial_notional |->
                                heap.constructed.initial_notional]
            /\ heap.lists[heap.bond.coupons] = heap.constructed.coupons
            /\ heap.lists[heap.bond.amortizations]
                    = heap.constructed.amortizations
            /\ heap.held \cap own = {}
            /\ heap.locals \cap own = {}
            /\ heap.op = "payments_since_date" =>
                    /\ Cardinality(heap.locals) = 2
                    /\ heap.lists[heap.returned[1]] = heap.res.val[1]
                    /\ heap.lists[heap.returned[2]] = heap.res.val[2]

\* C14 witness: the caller holds the two lists of a payments_since_date
\* call that kept every entry, has emptied the list of coupons it got, and
\* the Bond still has its coupons.
C14_Witness ==
    /\ heap.pc = "constructed"
    /\ heap.op = "caller"
    /\ Len(heap.returned) = 2
    /\ heap.res.val[1] = heap.constructed.coupons
    /\ heap.res.val[1] # <<>>
    /\ heap.lists[heap.returned[1]] = <<>>
    /\ Len(heap.lists[heap.bond.coupons]) = Len(heap.res.val[1])

\* what the call of frame f gives when it runs alone on Bond b
Alone(b, f) ==
    IF f.op = "notional_on_date" THEN notional_on_date(b, f.args[1])
    ELSE IF f.op = "accrued_coupon_on_date"
    THEN accrued_coupon_on_date(b, f.args[1])
    ELSE IF f.op = "payments_since_date"
    THEN Return(payments_since_date(b, f.args[1]))
    ELSE yield_to_maturity(b, f.args[1], f.args[2], f.args[3], f.args[4],
                           f.args[5], f.args[6], f.args[7]).res

\* C13: in any interleaving of concurrent calls of notional_on_date,
\* accrued_coupon_on_date, payments_since_date and yield_to_maturity on one
\* Bond, without locking, every call ends with the result it gives when run
\* alone, and the flow list of a yield_to_maturity call holds only that
\* call's flows.
C13_ConcurrentCallsAsAlone ==
    \A t \in Threads :
        LET f == thr.frames[t]
        IN  /\ f.pc = "done" => f.res = Alone(thr.bond, f)
            /\ (/\ f.op = "yield_to_maturity"
                /\ f.pc \in {"ytm_irr", "done"}
                /\ f.res.kind # "raise" \/ f.res.err = InsufficientDataError)
                => thr.flows[t] = yield_to_maturity(thr.bond, f.args[1], f.args[2], f.args[3], f.args[4], f.args[5], f.args[6], f.args[7]).flows

\* C13 witness: a yield_to_maturity call that ran while the other thread
\* was inside a call has returned a yield, and the other thread is in the
\* middle of building the flow list of its own yield_to_maturity call.
C13_Witness ==
    \E t \in Threads, o \in Threads :
        /\ t # o
        /\ thr.frames[t].pc = "done"
        /\ thr.frames[t].op = "yield_to_maturity"
        /\ thr.frames[t].overlapped
        /\ thr.frames[t].res.kind = "return"
        /\ thr.frames[o].pc = "ytm_amortizations"
        /\ Len(thr.flows[o]) > 1
        /\ thr.flows[o] # thr.flows[t]

C22_CouponEntryValidation ==
    entry.pc = "done" =>
        LET e == entry.args
            bad == \/ e.value < 0
                   \/ e.yearly_prc < 0
                   \/ (e.record_date # None /\ e.record_date[1] > e.coupon_date)
                   \/ e.start_date > e.coupon_date
        IN  /\ bad => entry.res = Raise(ValidationError)
            /\ entry.res.kind = "return" =>
                /\ entry.res.val = e
                /\ e.value >= 0 /\ e.yearly_prc >= 0
                /\ e.start_date <= e.coupon_date
                /\ e.record_date = None \/ e.record_date[1] <= e.coupon_date
            /\ (e.record_date = None /\ e.value >= 0 /\ e.yearly_prc >= 0
                    /\ e.start_date <= e.coupon_date)
                => entry.res = Return(e)

\* C22 witness: an entry whose only fault is a start_date after its
\* coupon_date, with no record_date, was rejected.
C22_Witness ==
    /\ entry.pc = "done"
    /\ entry.args.record_date = None
    /\ entry.args.value >= 0 /\ entry.args.yearly_prc >= 0
    /\ entry.args.start_date > entry.args.coupon_date
    /\ entry.res = Raise(ValidationError)

\* C23: in process_actions_atomically an exception raised by an action's
\* rollback (in the rollback phase) or commit (in the commit phase) is
\* swallowed and does not stop the phase: every remaining action of the
\* phase still gets its rollback or commit call exactly once, the function
\* returns normally, and a failed commit triggers no rollback.
C23_PhaseSurvivesExceptions ==
    LET n == Len(tx.actions)
        k == Len(tx.actions_for_rollback_on_error)
        swallowed(c) == \E m \in 1..Len(tx.logged) : tx.logged[m] = c
    IN  /\ tx.pc = "returned" =>
            /\ tx.need_rollback =>
                /\ CallsOf("rollback") = [m \in 1..k |-> k + 1 - m]
                /\ CallsOf("commit") = <<>>
            /\ ~tx.need_rollback =>
                /\ CallsOf("commit") = [m \in 1..n |-> m]
                /\ CallsOf("rollback") = <<>>
        /\ \A c \in 1..Len(tx.calls) :
                (/\ tx.calls[c][1] \in {"rollback", "commit"}
                 /\ tx.actions[tx.calls[c][2]]
                        [IF tx.calls[c][1] = "rollback" THEN "rollback_raises"
                         ELSE "commit_raises"])
                => swallowed(tx.calls[c])
        /\ (\E m \in 1..Len(tx.logged) : tx.logged[m][1] = "commit")
                => CallsOf("rollback") = <<>>

\* C23 witness: three actions were recorded for rollback, the rollback
\* called first raised, and the other two were still rolled back before
\* the function returned.
C23_Witness ==
    /\ tx.pc = "returned"
    /\ tx.need_rollback
    /\ Len(tx.actions_for_rollback_on_error) = 3
    /\ tx.actions[3].rollback_raises
    /\ tx.logged[1] = <<"rollback", 3>>
    /\ CallsOf("rollback") = <<3, 2, 1>>

\* C24: after construction and after any sequence of append calls an
\* OHLCSeries has strictly ascending dates; append(other) raises ValueError
\* and leaves the receiver (entries and name) unchanged when other has a
\* different instr_code or when other's first date is not strictly later
\* than the receiver's last date; appending an empty series changes
\* nothing; a successful append makes the entries the old entries followed
\* by other's entries.
C24_SeriesAscending ==
    series.pc \in {"constructed", "appended"} =>
        LET s == series.self.ohlc_series
            b == series.before
            o == series.other
            mismatch == o.instr_code # b.instr_code
            overlap == /\ o.ohlc_series # <<>> /\ b.ohlc_series # <<>>
                       /\ ~(o.ohlc_series[1].date
                                > b.ohlc_series[Len(b.ohlc_series)].date)
        IN  /\ \A i, j \in 1..Len(s) : i < j => s[i].date < s[j].date
            /\ series.pc = "appended" =>
                /\ (mismatch \/ overlap) =>
                        /\ series.res = Raise("ValueError")
                        /\ series.self = b
                /\ (~mismatch /\ o.ohlc_series = <<>>) =>
                        /\ series.res = Return(None)
                        /\ series.self = b
                /\ series.res.kind = "return" =>
                        s = b.ohlc_series \o o.ohlc_series

\* C24 witness: a series of the same instrument that starts on the
\* receiver's last date, and carries another name, was refused, and the
\* receiver is as it was.
C24_Witness ==
    /\ series.pc = "appended"
    /\ series.other.instr_code = series.before.instr_code
    /\ series.before.ohlc_series # <<>>
    /\ series.other.ohlc_series # <<>>
    /\ series.other.ohlc_series[1].date
            = series.before.ohlc_series[Len(series.before.ohlc_series)].date
    /\ series.other.name # None /\ series.other.name # series.before.name
    /\ series.res = Raise("ValueError")
    /\ series.self = series.before

\* C25: for a MovingAvgCalculator with window w >= 2 and any sequence of
\* add calls, avg() returns None while fewer than w elements have been
\* added, and after n >= w additions the arithmetic mean of exactly the
\* last w added elements; at every point agg_sum equals the sum of the
\* buffer contents and cur_idx stays within 0..w-1.  (A sum is taken as
\* the float nearest to the exact sum.)
C25_MovingAverage ==
    mavg.pc = "ready" =>
        LET w == mavg.window
            n == Len(mavg.added)
            last == [k \in 1..w |-> mavg.added[n - w + k]]
        IN  /\ mavg.agg_sum = Float(SumFrom(mavg.buffer, 1))
            /\ mavg.cur_idx \in 0..(w - 1)
            /\ mavg.res # NoResult =>
                IF n < w THEN mavg.res = Return(None)
                ELSE mavg.res = Return(Some(<<Float(SumFrom(last, 1)), w>>))

RECURSIVE EntriesOf(_, _)
\* the entries of the replies from the i-th on, one reply after the other
EntriesOf(replies, i) ==
    IF i > Len(replies) THEN <<>>
    ELSE replies[i].ohlc_series \o EntriesOf(replies, i + 1)

\* the k-th reply has been dealt with by load_ohlc_table
Processed(k) == k < Len(load.replies) \/ load.pc # "loaded"

LastDate(s) == s.ohlc_series[Len(s.ohlc_series)].date

\* the k-th reply is one that append refuses after the replies before it
Refused(k) ==
    LET before == EntriesOf(SubSeq(load.replies, 1, k - 1), 1)
        r == load.replies[k]
    IN  /\ r.ohlc_series # <<>>
        /\ \/ r.instr_code # "instr"
           \/ before # <<>> /\ r.ohlc_series[1].date <= before[Len(before)].date

\* C26 (as stated): load_ohlc_table calls the partial loader first with
\* from_date and then, after each non-empty reply, with the reply's last
\* date plus one day; it stops at the first empty reply and returns a
\* series whose entries are the concatenation of all non-empty replies in
\* the order received.
C26_LoadAll_AsStated ==
    load.pc # "idle" =>
        /\ load.requests[1] = load.from_date
        /\ \A k \in 1..Len(load.replies) :
                (Processed(k) /\ load.replies[k].ohlc_series # <<>>)
                => /\ Len(load.requests) > k
                   /\ load.requests[k + 1]
                        = Some(LastDate(load.replies[k]) + 1)
        /\ load.pc \notin {"loading", "loaded"} =>
                /\ load.replies[Len(load.replies)].ohlc_series = <<>>
                /\ load.res.kind = "return"
                /\ load.res.val.ohlc_series = EntriesOf(load.replies, 1)

\* what holds of every state of load_ohlc_table
LoadAllSafe ==
    load.pc # "idle" =>
        /\ load.requests[1] = load.from_date
        /\ Len(load.requests) - Len(load.replies)
                = (IF load.pc = "loading" THEN 1 ELSE 0)
        /\ \A k \in 1..Len(load.replies) :
                (Processed(k) /\ load.replies[k].ohlc_series # <<>>)
                => IF Refused(k)
                   THEN /\ k = Len(load.replies)
                        /\ load.pc = "raised"
                        /\ load.res = Raise("ValueError")
                   ELSE /\ Len(load.requests) > k
                        /\ load.requests[k + 1]
                                = Some(LastDate(load.replies[k]) + 1)
        /\ \A k \in 1..(Len(load.replies) - 1) :
                load.replies[k].ohlc_series # <<>>
        /\ load.pc = "raised" => Refused(Len(load.replies))
        /\ load.pc = "returned" =>
                /\ load.replies[Len(load.replies)].ohlc_series = <<>>
                /\ load.res.kind = "return"
                /\ load.res.val.instr_code = "instr"
                /\ load.res.val.ohlc_series = EntriesOf(load.replies, 1)

\* C26 (amended): the same for replies that OHLCSeries.append accepts; a
\* non-empty reply that append refuses (another instr_code, or a first date
\* not later than the last date already loaded) makes load_ohlc_table raise
\* ValueError on that reply, with no further call of the loader; once the
\* loader has returned an empty series the function returns.
C26_LoadAll ==
    /\ []LoadAllSafe
    /\ (load.pc = "loaded"
            /\ load.replies[Len(load.replies)].ohlc_series = <<>>)
        ~> (load.pc = "returned")

\* C26 witness: two non-empty replies and an empty one; the loader was
\* asked for from_date, then for the day after each reply's last date, and
\* the series returned holds both replies.
C26_Witness ==
    /\ load.pc = "returned"
    /\ Len(load.replies) = 3
    /\ Len(load.replies[1].ohlc_series) = 2
    /\ load.from_date = None
    /\ load.requests = <<None, Some(LastDate(load.replies[1]) + 1),
                         Some(LastDate(load.replies[2]) + 1)>>
    /\ Len(load.res.val.ohlc_series) = 3

\* C27: find_violating_rates(rel_eps) returns exactly the currency pairs
\* present on both the last available date and the date before it whose
\* rate changed between those two dates, relative to the larger absolute
\* rate, by more than rel_eps in magnitude; a pair whose change is within
\* rel_eps, or that is missing on either date, is not returned.
C27_ViolatingRates ==
    (rates.pc = "found" /\ rates.res.kind = "return") =>
        LET dates == DOMAIN rates.by_dates
            last_date == CHOOSE d \in dates : \A e \in dates : e <= d
            prev_date == CHOOSE d \in dates \ {last_date} :
                            \A e \in dates \ {last_date} : e <= d
            now == rates.by_dates[last_date]
            yesterday == rates.by_dates[prev_date]
            larger(p) == IF Abs(now[p]) >= Abs(yesterday[p])
                         THEN Abs(now[p]) ELSE Abs(yesterday[p])
        IN  DOMAIN rates.res.val
                = {p \in DOMAIN now \cap DOMAIN yesterday :
                        Abs(now[p] - yesterday[p]) * 100
                            > rates.rel_eps * larger(p)}

\* C28: for any f, initial guess, epsilon and max_iterations >= 0, find_root
\* performs at most max_iterations Newton steps and then terminates by
\* returning or raising; the iterations_used of a returned triple equals
\* the number of steps actually performed and never exceeds max_iterations.
C28_BoundedSteps ==
    /\ [](/\ fr.der_calls <= fr.max_iter
          /\ fr.num_iter <= fr.der_calls
          /\ fr.pc = "returned" =>
                /\ fr.out.kind = "return"
                /\ fr.out.val[2] = fr.der_calls
                /\ fr.out.val[2] <= fr.max_iter)
    /\ (fr.pc = "loop") ~> FindRootEnded

\* C28 witness: a call that returned after performing every one of its
\* max_iterations > 1 steps.
C28_Witness ==
    /\ fr.pc = "returned"
    /\ fr.max_iter > 1
    /\ fr.der_calls = fr.max_iter
    /\ fr.out.val[2] = fr.max_iter

\* the days around the amortization dates of a Bond: notional_on_date is
\* constant between two neighbouring days of this set
DaysAround(b) ==
    UNION {{b.amortizations[i].amort_date - 1, b.amortizations[i].amort_date,
            b.amortizations[i].amort_date + 1} :
                i \in 1..Len(b.amortizations)}

\* C29: for every constructed Bond and all dates d1 <= d2,
\* 0 <= notional_on_date(d2) <= notional_on_date(d1) <= initial_notional:
\* the outstanding notional never rises over time, never exceeds the
\* initial notional and never goes negative.
C29_NotionalNeverRises ==
    Ended("notional_on_date") =>
        /\ result.kind = "return"
        /\ 0 <= result.val /\ result.val <= bond.initial_notional
        /\ \A d \in DaysAround(bond) :
            LET other == notional_on_date(bond, d)
            IN  /\ other.kind = "return"
                /\ d <= call.args[1] => result.val <= other.val
                /\ call.args[1] <= d => other.val <= result.val

\* C29 witness: a query between two amortizations returns less than the
\* initial notional and more than the notional after the last amortization.
C29_Witness ==
    /\ Ended("notional_on_date")
    /\ Len(bond.amortizations) > 1
    /\ call.args[1] = bond.amortizations[1].amort_date + 1
    /\ result.kind = "return"
    /\ result.val < notional_on_date(bond, call.args[1] - 1).val
    /\ result.val > notional_on_date(bond,
            bond.amortizations[Len(bond.amortizations)].amort_date + 1).val

\* CashFlows was constructed and its irr was called
ReachedIrr == \E i \in 1..Len(call.sub) : call.sub[i] = "irr"

\* the conditions of C30 on the arguments of a call of yield_to_maturity
\* that got as far as building its flows: a price >= 0, an accrued coupon
\* (supplied, or computed on date_buy) >= 0, no commission or one >= 0, no
\* tax or one within [0, 1]
SignConditions ==
    /\ call.args[1] >= 0
    /\ IF call.args[4] # None THEN call.args[4][1] >= 0
       ELSE accrued_coupon_on_date(bond, call.args[2]).val >= 0
    /\ call.args[6] # None => call.args[6][1] >= 0
    /\ call.args[5] # None => call.args[5][1] \in 0..100

\* C30: in yield_to_maturity with price_buy_prc >= 0, a non-negative accrued
\* coupon, commission absent or >= 0 and coupon_tax_prc absent or within
\* [0, 1], whenever CashFlows construction succeeds the first flow is
\* strictly negative and every later flow is non-negative, so the
\* initial-guess computation in irr never divides by zero.
C30_FirstFlowNegative ==
    (Ended("yield_to_maturity") /\ ReachedIrr /\ SignConditions) =>
        /\ call.flows[1].flow < 0
        /\ \A i \in 2..Len(call.flows) : call.flows[i].flow >= 0
        /\ result # Raise(ZeroDivisionError)
        /\ ReachedSolver

\* C30 witness: a taxed purchase at price 0 whose outflow is the accrued
\* coupon computed on date_buy alone; the flows were accepted and the solver
\* was reached.
C30_Witness ==
    /\ Ended("yield_to_maturity") /\ ReachedIrr /\ SignConditions
    /\ call.args[1] = 0 /\ call.args[4] = None /\ call.args[6] = None
    /\ call.args[5] # None
    /\ call.flows[1].flow < 0
    /\ Len(call.flows) >= 3
    /\ ReachedSolver

====
